---------------------------- MODULE Spec2Model ----------------------------
(***************************************************************************)
(* A model of the core of the Taiga MCP server:                            *)
(*   - the pagination engine          (src/src/pagination.js)              *)
(*   - the version-guarded updates    (src/src/taigaService.js)            *)
(*   - the attachment pipeline        (src/src/taigaService.js)            *)
(* Each part has its own specification over the shared variables; the      *)
(* variables of the other parts stay at their initial values.              *)
(***************************************************************************)
EXTENDS Integers, Sequences, FiniteSets, TLC

(***************************************************************************)
(* Bounds of the model.                                                    *)
(***************************************************************************)
\* largest maxPages argument tried, and the number of pages a page-fetching
\* function is defined on
MaxM == 3
\* largest number of items in one page
MaxPageLen == 2
\* number of writes actors other than this service make to the remote service
MaxOtherWrites == 2
\* largest length of the fileData text given to uploadAttachment
MaxDataLen == 4
\* largest length of the generated file names given to detectMimeType
MaxNameLen == 5
\* largest number of chunks in the content stream of a download
MaxChunks == 2

VARIABLES
  \* ---- pagination engine: fetchAllPaginated(fetchFunction, initialParams, maxPages)
  fetchFunction,  \* the caller's page-fetching function: page number -> response
  maxPages,       \* the maxPages argument
  allItems,       \* accumulator
  currentPage,    \* page counter
  hasMore,        \* loop flag
  pagePc,         \* "start" | "await" (a fetch is in flight) | "done"
  calls,          \* the page numbers fetchFunction was called with, in order
  settled,        \* the number of those calls that have returned or raised
  pageResult,     \* what the call returned to its caller (NoResult before)
  pageRaised,     \* TRUE iff an exception escaped fetchAllPaginated
  \* ---- list operations: the callers of fetchAllPaginated
  listCall,       \* the operation called, its arguments, the initialParams
  listPc,         \* "start" | "auth" | "user" | "paging" | "done" ("idle": no list operation)
  listUser,       \* listProjects: the id of the current user (0 before)
  sent,           \* what fetchFunction sent, call by call: endpoint and parameters
  listOutcome,    \* what the list operation returned or raised to its caller
  \* ---- version-guarded updates
  remoteVersion,  \* the remote service: resource -> its current version
  otherWrites,    \* number of writes other actors have made
  inv,            \* the invocations of the service: slot -> record
  \* ---- attachment pipeline: uploadAttachment / uploadAttachmentFromPath
  attCall,        \* the operation called and its arguments
  cwd,            \* process.cwd()
  existing,       \* the paths at which the file system holds a file
  attPc,          \* "start" | "auth" | "lookup" | "posting" | "done" ("idle": no call)
  searched,       \* the paths tested with existsSync, in order
  absolutePath,   \* the resolved path of uploadAttachmentFromPath
  filesRead,      \* the paths read with readFileSync, in order
  upload,         \* the arguments uploadAttachment runs with (None before)
  base64Data,     \* the text handed to the base64 decoder
  fileBuffer,     \* the decoded bytes
  formData,       \* the fields of the multipart body
  itemData,       \* what the lookup of the owning item gave
  postError,      \* the status of the error the upload request raised
  metadata,       \* downloadAttachment: the attachment record fetched
  writer,         \* downloadAttachment: the write stream
  requests,       \* the requests sent to the remote service, in order
  attOutcome,     \* what the call returned or raised to its caller
  \* ---- tool handlers
  toolCall,       \* the tool invoked and its arguments
  toolPc,         \* "start" | "awaiting" | "done" ("idle": no tool invoked)
  reads,          \* the service calls the handler has made: call, state, value
  order,          \* the indexes of the settled service calls, in order of settling
  toolResponse,   \* the response the handler returned
  toolRaised      \* TRUE iff an exception escaped the handler

\* the variables of the list operations
listVars == <<listCall, listPc, listUser, sent, listOutcome>>

pageVars == <<fetchFunction, maxPages, allItems, currentPage, hasMore, pagePc,
              calls, settled, pageResult, pageRaised, listVars>>

mutVars == <<remoteVersion, otherWrites, inv>>

\* the variables the upload operations alone use
uploadVars == <<attCall, cwd, existing, searched, absolutePath, filesRead,
                upload, base64Data, fileBuffer, formData, itemData, postError>>

\* the variables downloadAttachment alone uses
downloadVars == <<metadata, writer>>

attVars == <<uploadVars, downloadVars, attPc, requests, attOutcome>>

toolVars == <<toolCall, toolPc, reads, order, toolResponse, toolRaised>>

vars == <<pageVars, mutVars, attVars, toolVars>>

NoValue == "NoValue"

\* pageResult before the call has returned: a sequence, as every result is,
\* that no call returns (no page has the number 0)
NoResult == <<<<0, 0>>>>

(***************************************************************************)
(* Version-guarded updates                                                 *)
(***************************************************************************)

\* JavaScript values, tagged with their typeof
Num(n) == <<"number", n>>
Str(t) == <<"string", t>>
Undefined == <<"undefined">>
Null == <<"null">>
\* no value yet
None == <<"none">>
TypeOf(v) == v[1]

\* the service's two concurrent callers
Slots == {1, 2}
\* the identifiers of remote items
ItemIds == {1}
\* item kinds a caller may name; "epic" is a kind outside the three known ones
ItemTypes == {"issue", "user_story", "task", "epic"}
Endpoints == {"ISSUES", "USER_STORIES", "TASKS", "EPICS", "WIKI"}
Resources == Endpoints \X ItemIds

\* names of properties every object literal inherits from Object.prototype
InheritedKeys == {"constructor", "toString", "__proto__"}

\* the (truthy) value of such a property
Inherited(key) ==
  CASE key = "constructor" -> "Object.prototype.constructor"
    [] key = "toString"    -> "Object.prototype.toString"
    [] key = "__proto__"   -> "Object.prototype"

\* endpoints[itemType] || API_ENDPOINTS.ISSUES (652-657): an own property
\* of the literal, else an inherited one, else the default
getItemEndpoint(itemType) ==
  CASE itemType = "issue"         -> "ISSUES"
    [] itemType = "user_story"    -> "USER_STORIES"
    [] itemType = "task"          -> "TASKS"
    [] itemType \in InheritedKeys -> Inherited(itemType)
    [] OTHER                      -> "ISSUES"

\* types[itemType] || 'issue' (665-670)
getHistoryObjectType(itemType) ==
  CASE itemType = "issue"         -> "issue"
    [] itemType = "user_story"    -> "userstory"
    [] itemType = "task"          -> "task"
    [] itemType \in InheritedKeys -> Inherited(itemType)
    [] OTHER                      -> "issue"

\* the endpoint family each operation reads from and writes to
EndpointOf(op, itemType) ==
  CASE op = "updateIssue"         -> "ISSUES"
    [] op = "updateEpic"          -> "EPICS"
    [] op = "updateWikiPage"      -> "WIKI"
    [] op = "linkStoryToEpic"     -> "USER_STORIES"
    [] op = "unlinkStoryFromEpic" -> "USER_STORIES"
    [] op = "addComment"          -> getItemEndpoint(itemType)

\* the arguments callers pass: field changes with or without a version of
\* the caller's own; the comment data always carries one
UpdateDatas == { [status |-> Num(2)], [status |-> Num(2), version |-> Num(9)] }
CommentDatas == { [comment |-> Str("hi"), version |-> Num(9)] }

Invocations ==
  [op : {"updateIssue", "updateEpic", "updateWikiPage"}, itemType : {"-"},
   id : ItemIds, data : UpdateDatas]
    \cup [op : {"linkStoryToEpic"}, itemType : {"-"}, id : ItemIds,
          data : {[epic |-> Num(30)]}]
    \cup [op : {"unlinkStoryFromEpic"}, itemType : {"-"}, id : ItemIds,
          data : {[epic |-> Null]}]
    \cup [op : {"addComment"}, itemType : ItemTypes, id : ItemIds,
          data : CommentDatas]

\* the version field of the resource a read returns: the remote version, or
\* no field at all, or a value that is not a number
VersionField(r, form) ==
  CASE form = "number"  -> Num(remoteVersion[r])
    [] form = "missing" -> Undefined
    [] form = "text"    -> Str("v")

\* (mutant) getItemVersion without its default
getItemVersionNoDefault(version) == version

\* getItemVersion, lines 683-689
getItemVersion(version) ==
  IF TypeOf(version) # "number" THEN Num(1) ELSE version

\* (mutant) {version: v, ...updateData}: a version of the caller's wins
WithVersionCallerWins(updateData, v) == updateData @@ ("version" :> v)

\* {...updateData, version: v}: the later key wins
WithVersion(updateData, v) == ("version" :> v) @@ updateData

\* the object each operation hands to client.patch
PatchData(c, version) ==
  CASE c.op \in {"updateIssue", "updateEpic", "updateWikiPage"}
         -> WithVersion(c.data, version)
    [] c.op \in {"linkStoryToEpic", "unlinkStoryFromEpic"}
         -> [epic |-> c.data.epic, version |-> version]
    [] c.op = "addComment"
         -> [comment |-> c.data.comment, version |-> getItemVersion(version)]

\* the JSON body the transport sends: a key whose value is undefined is left out
Serialize(obj) ==
  [k \in {f \in DOMAIN obj : obj[f] # Undefined} |-> obj[k]]

\* the error the caller of an operation gets when its read failed with `status`
ReadErrorOf(c, status) ==
  CASE c.op = "updateIssue"    -> "Failed to update issue in Taiga"
    [] c.op = "updateEpic"     -> "Failed to update epic in Taiga"
    [] c.op = "updateWikiPage" -> "ERROR_MESSAGES.FAILED_TO_UPDATE_WIKI"
    [] c.op = "linkStoryToEpic"     -> "Failed to link user story to epic"
    [] c.op = "unlinkStoryFromEpic" -> "Failed to unlink user story from epic"
    [] c.op = "addComment" ->
         \* getItemVersion's catch (691-697) raises an Error without a
         \* response, which addComment's catch reports in its last branch
         CASE status = 404 -> "Failed to add comment to Taiga: <itemType> #<itemId> not found"
           [] status = 403 -> "Failed to add comment to Taiga: Permission denied accessing <itemType> #<itemId>"
           [] OTHER        -> "Failed to add comment to Taiga: Failed to get <itemType> version: <message>"

\* (mutant) addComment does not look for the version key of a 400 response
WriteErrorOfAnyBadRequest(c, e) ==
  CASE c.op = "updateIssue"    -> "Failed to update issue in Taiga"
    [] c.op = "updateEpic"     -> "Failed to update epic in Taiga"
    [] c.op = "updateWikiPage" -> "ERROR_MESSAGES.FAILED_TO_UPDATE_WIKI"
    [] c.op = "linkStoryToEpic"     -> "Failed to link user story to epic"
    [] c.op = "unlinkStoryFromEpic" -> "Failed to unlink user story from epic"
    [] c.op = "addComment" ->
         CASE e.status = 400
                -> "Failed to add comment to Taiga: Bad request. Please check the comment data format."
           [] e.status = 403
                -> "Failed to add comment to Taiga: Permission denied. Check your access rights."
           [] e.status = 404
                -> "Failed to add comment to Taiga: <itemType> #<itemId> not found."
           [] OTHER
                -> "Failed to add comment to Taiga: <message>"

\* the error the caller of an operation gets when its write failed; e is
\* the transport error: its status and whether its body has a version key
WriteErrorOf(c, e) ==
  CASE c.op = "updateIssue"    -> "Failed to update issue in Taiga"
    [] c.op = "updateEpic"     -> "Failed to update epic in Taiga"
    [] c.op = "updateWikiPage" -> "ERROR_MESSAGES.FAILED_TO_UPDATE_WIKI"
    [] c.op = "linkStoryToEpic"     -> "Failed to link user story to epic"
    [] c.op = "unlinkStoryFromEpic" -> "Failed to unlink user story from epic"
    [] c.op = "addComment" ->
         CASE e.status = 400 /\ e.version
                -> "Failed to add comment to Taiga: Version parameter is invalid. The item may have been modified by another user."
           [] e.status = 400 /\ ~e.version
                -> "Failed to add comment to Taiga: Bad request. Please check the comment data format."
           [] e.status = 403
                -> "Failed to add comment to Taiga: Permission denied. Check your access rights."
           [] e.status = 404
                -> "Failed to add comment to Taiga: <itemType> #<itemId> not found."
           [] OTHER
                -> "Failed to add comment to Taiga: <message>"

\* the statuses a failing request can carry
ReadFailures == {401, 403, 404}
\* the errors with which the remote service refuses a write for a reason
\* other than its version
WriteFailures == [status : {400, 401, 403, 404, 413}, version : {FALSE}]
\* the error of a write refused for its version
VersionConflict == [status |-> 400, version |-> TRUE]

\* the error the transport raised to an operation: the request it was
\* raised for ("read", "write"), its status, and whether the body of the
\* response has a version key
TransportError(request, status, version) == <<"error", request, status, version>>

\* the remote service accepts a write iff it carries the current version
RemoteAccepts(r, body) ==
  /\ "version" \in DOMAIN body
  /\ body.version = Num(remoteVersion[r])

IdleSlot ==
  [pc |-> "idle", call |-> NoValue, readFrom |-> NoValue, readVersion |-> None,
   atRead |-> 0, wroteTo |-> NoValue, body |-> NoValue, intervened |-> FALSE,
   reads |-> 0, writes |-> 0, failed |-> None, outcome |-> NoValue]

\* an operation is called: its read request is sent
\* (updateIssue 373-376, updateEpic 1079-1082, updateWikiPage 1236-1239,
\*  linkStoryToEpic 1104-1107, unlinkStoryFromEpic 1128-1131, addComment 544-547)
Invoke(s, c) ==
  /\ inv[s].pc = "idle"
  \* the callers are interchangeable: the lower slots start first
  /\ \A t \in Slots : t < s => inv[t].pc # "idle"
  /\ inv' = [inv EXCEPT ![s] =
       [@ EXCEPT !.pc = "reading", !.call = c,
                 !.readFrom = <<EndpointOf(c.op, c.itemType), c.id>>,
                 !.reads = 1]]
  /\ UNCHANGED <<remoteVersion, otherWrites>>
  /\ UNCHANGED <<pageVars, attVars, toolVars>>

\* the read returns the resource; the operation builds its payload and sends
\* the write request
ReadReturns(s, form) ==
  /\ inv[s].pc = "reading"
  /\ LET c == inv[s].call
         r == inv[s].readFrom
         v == VersionField(r, form)
     IN inv' = [inv EXCEPT ![s] =
          [@ EXCEPT !.pc = "writing",
                    !.readVersion = v,
                    !.atRead = remoteVersion[r],
                    !.wroteTo = <<EndpointOf(c.op, c.itemType), c.id>>,
                    !.body = Serialize(PatchData(c, v)),
                    !.writes = 1]]
  /\ UNCHANGED <<remoteVersion, otherWrites>>
  /\ UNCHANGED <<pageVars, attVars, toolVars>>

\* (mutant) the failure of the read is dropped and the write is sent
\* without a version
ReadFailsWritingAnyway(s, status) ==
  /\ inv[s].pc = "reading"
  /\ LET c == inv[s].call
     IN inv' = [inv EXCEPT ![s] =
          [@ EXCEPT !.pc = "writing",
                    !.failed = TransportError("read", status, FALSE),
                    !.wroteTo = <<EndpointOf(c.op, c.itemType), c.id>>,
                    !.body = Serialize(PatchData(c, Undefined)),
                    !.writes = 1]]
  /\ UNCHANGED <<remoteVersion, otherWrites>>
  /\ UNCHANGED <<pageVars, attVars, toolVars>>

\* the read fails: the operation raises to its caller without writing
ReadFails(s, status) ==
  /\ inv[s].pc = "reading"
  /\ inv' = [inv EXCEPT ![s] =
       [@ EXCEPT !.pc = "done",
                 !.failed = TransportError("read", status, FALSE),
                 !.outcome = [ok |-> FALSE, msg |-> ReadErrorOf(inv[s].call, status)]]]
  /\ UNCHANGED <<remoteVersion, otherWrites>>
  /\ UNCHANGED <<pageVars, attVars, toolVars>>

\* (mutant) a refused write is repeated with the version the resource has by
\* then, and so is accepted
WriteArrivesRetrying(s) ==
  /\ inv[s].pc = "writing"
  /\ LET r == inv[s].wroteTo IN
     /\ remoteVersion' = [remoteVersion EXCEPT ![r] = @ + 1]
     /\ inv' = [inv EXCEPT ![s] =
          [@ EXCEPT !.pc = "done", !.intervened = (remoteVersion[r] # inv[s].atRead),
                    !.writes = IF RemoteAccepts(r, inv[s].body) THEN 1 ELSE 2,
                    !.outcome = [ok |-> TRUE, msg |-> "response.data"]]]
  /\ UNCHANGED otherWrites
  /\ UNCHANGED <<pageVars, attVars, toolVars>>

\* the remote service takes the write: it applies it and moves to the next
\* version, or refuses it for its version
WriteArrives(s) ==
  /\ inv[s].pc = "writing"
  /\ LET r == inv[s].wroteTo IN
     IF RemoteAccepts(r, inv[s].body)
     THEN /\ remoteVersion' = [remoteVersion EXCEPT ![r] = @ + 1]
          /\ inv' = [inv EXCEPT ![s] =
               [@ EXCEPT !.pc = "done", !.intervened = (remoteVersion[r] # inv[s].atRead),
                         !.outcome = [ok |-> TRUE, msg |-> "response.data"]]]
     ELSE /\ remoteVersion' = remoteVersion
          /\ inv' = [inv EXCEPT ![s] =
               [@ EXCEPT !.pc = "done", !.intervened = (remoteVersion[r] # inv[s].atRead),
                         !.failed = TransportError("write", VersionConflict.status,
                                                   VersionConflict.version),
                         !.outcome = [ok |-> FALSE,
                                      msg |-> WriteErrorOf(inv[s].call, VersionConflict)]]]
  /\ UNCHANGED otherWrites
  /\ UNCHANGED <<pageVars, attVars, toolVars>>

\* the write fails for another reason (bad data, credentials, rights,
\* a missing item, the network): nothing is applied
WriteFails(s, e) ==
  /\ inv[s].pc = "writing"
  /\ inv' = [inv EXCEPT ![s] =
       [@ EXCEPT !.pc = "done", !.intervened = (remoteVersion[inv[s].wroteTo] # inv[s].atRead),
                 !.failed = TransportError("write", e.status, e.version),
                 !.outcome = [ok |-> FALSE, msg |-> WriteErrorOf(inv[s].call, e)]]]
  /\ UNCHANGED <<remoteVersion, otherWrites>>
  /\ UNCHANGED <<pageVars, attVars, toolVars>>

\* another actor writes a resource.  Only writes to a resource that an
\* operation under way addresses are taken: a write to any other resource,
\* or one made before the operation was called, reaches the service exactly
\* as one made between the call and its read does.
OtherActorWrites(r) ==
  /\ otherWrites < MaxOtherWrites
  /\ \E s \in Slots : inv[s].pc \in {"reading", "writing"} /\ inv[s].readFrom = r
  /\ otherWrites' = otherWrites + 1
  /\ remoteVersion' = [remoteVersion EXCEPT ![r] = @ + 1]
  /\ UNCHANGED inv
  /\ UNCHANGED <<pageVars, attVars, toolVars>>

\* no operation of the service is under way
MutIdle ==
  /\ remoteVersion = [r \in Resources |-> 1]
  /\ otherWrites = 0
  /\ inv = [s \in Slots |-> IdleSlot]

MutNext ==
  \/ \E s \in Slots, c \in Invocations : Invoke(s, c)
  \/ \E s \in Slots, form \in {"number", "missing", "text"} : ReadReturns(s, form)
  \/ \E s \in Slots, status \in ReadFailures : ReadFails(s, status)
  \/ \E s \in Slots : WriteArrives(s)
  \/ \E s \in Slots, e \in WriteFailures : WriteFails(s, e)
  \/ \E r \in Resources : OtherActorWrites(r)


(***************************************************************************)
(* Attachment pipeline                                                     *)
(***************************************************************************)

\* ---- text: a string is the sequence of its characters

\* the base64 alphabet, in the order of its values 0..63
Base64Alphabet ==
  << "A", "B", "C", "D", "E", "F", "G", "H", "I", "J", "K", "L", "M", "N", "O", "P",
     "Q", "R", "S", "T", "U", "V", "W", "X", "Y", "Z", "a", "b", "c", "d", "e", "f",
     "g", "h", "i", "j", "k", "l", "m", "n", "o", "p", "q", "r", "s", "t", "u", "v",
     "w", "x", "y", "z", "0", "1", "2", "3", "4", "5", "6", "7", "8", "9", "+", "/" >>

IsBase64Char(ch) == \E i \in DOMAIN Base64Alphabet : Base64Alphabet[i] = ch
ValueOf(ch) == (CHOOSE i \in DOMAIN Base64Alphabet : Base64Alphabet[i] = ch) - 1
CharOf(v) == Base64Alphabet[v + 1]

\* the characters fileData is built from: base64 digits, the padding, the
\* comma, and ";" for the characters of a data-URI header that are no digits
DataChars == {"Q", "U", "=", ",", ";"}

RECURSIVE StringsUpTo(_)
StringsUpTo(n) ==
  IF n = 0 THEN {<<>>}
  ELSE LET shorter == StringsUpTo(n - 1)
       IN shorter \cup {Append(t, ch) : t \in shorter, ch \in DataChars}

\* String.prototype.includes for a single character
Includes(str, ch) == \E i \in DOMAIN str : str[i] = ch

\* String.prototype.split for a single-character separator
RECURSIVE Split(_, _)
Split(str, sep) ==
  IF ~Includes(str, sep) THEN <<str>>
  ELSE LET i == CHOOSE j \in DOMAIN str :
                  str[j] = sep /\ \A k \in 1..(j - 1) : str[k] # sep
       IN <<SubSeq(str, 1, i - 1)>> \o Split(SubSeq(str, i + 1, Len(str)), sep)

\* Buffer.from(text, 'base64'): decoding ends at the first "=", characters
\* outside the alphabet are skipped, and every digit after the first of a
\* group of four completes one byte
RECURSIVE Digits(_)
Digits(str) ==
  IF str = <<>> \/ Head(str) = "=" THEN <<>>
  ELSE IF IsBase64Char(Head(str))
       THEN <<ValueOf(Head(str))>> \o Digits(Tail(str))
       ELSE Digits(Tail(str))

RECURSIVE BytesOf(_)
BytesOf(d) ==
  IF Len(d) < 2 THEN <<>>
  ELSE LET b1 == (d[1] * 4) + (d[2] \div 16)
           b2 == ((d[2] % 16) * 16) + (d[3] \div 4)
           b3 == ((d[3] % 4) * 64) + d[4]
       IN IF Len(d) = 2 THEN <<b1>>
          ELSE IF Len(d) = 3 THEN <<b1, b2>>
          ELSE <<b1, b2, b3>> \o BytesOf(SubSeq(d, 5, Len(d)))

BufferFromBase64(str) == BytesOf(Digits(str))

\* buffer.toString('base64')
RECURSIVE ToBase64(_)
ToBase64(b) ==
  IF Len(b) = 0 THEN <<>>
  ELSE IF Len(b) = 1
       THEN <<CharOf(b[1] \div 4), CharOf((b[1] % 4) * 16), "=", "=">>
  ELSE IF Len(b) = 2
       THEN <<CharOf(b[1] \div 4), CharOf(((b[1] % 4) * 16) + (b[2] \div 16)),
              CharOf((b[2] % 16) * 4), "=">>
  ELSE <<CharOf(b[1] \div 4), CharOf(((b[1] % 4) * 16) + (b[2] \div 16)),
         CharOf(((b[2] % 16) * 4) + (b[3] \div 64)), CharOf(b[3] % 64)>>
         \o ToBase64(SubSeq(b, 4, Len(b)))

\* line 737: the data-URI prefix is removed
StripDataUri(fileData) ==
  IF Includes(fileData, ",") THEN Split(fileData, ",")[2] ELSE fileData

\* ---- paths: a path is the sequence of its segments, a segment the
\* sequence of its characters; the segment "/" is the root

Root == <<"/">>
Desktop == <<"D", "e", "s", "k", "t", "o", "p">>
Downloads == <<"D", "o", "w", "n", "l", "o", "a", "d", "s">>
TmpDir == <<Root, <<"t", "m", "p">>>>
HomeDir == <<Root, <<"h", "o", "m", "e">>, <<"u">>>>
WorkDir == <<Root, <<"w", "o", "r", "k">>>>

\* the names of the files of the model; a name is the sequence of its
\* characters
FileName == <<"f", ".", "P", "D", "F">>
PngName == <<"a", ".", "p", "n", "g">>

\* path.isAbsolute
IsAbsolute(path) == path # <<>> /\ path[1] = Root

\* path.resolve of an absolute base and relative, already normal, segments
Resolve(base, rel) == base \o rel

\* path.basename
Basename(path) == path[Len(path)]

\* lines 829-838 (and again 854-859)
possiblePaths(filePath) ==
  << Resolve(cwd, filePath),
     Resolve(HomeDir, filePath),
     Resolve(HomeDir, <<Desktop>> \o filePath),
     Resolve(HomeDir, <<Downloads>> \o filePath) >>

\* (mutant) the message names the path as it was given
searchedPathsAsGiven(filePath) == <<filePath>>

\* lines 852-859
searchedPaths(filePath) ==
  IF IsAbsolute(filePath) THEN <<filePath>> ELSE possiblePaths(filePath)

\* the paths the loop of lines 840-846 tests: up to the first that exists
RECURSIVE ProbedUpTo(_)
ProbedUpTo(paths) ==
  IF paths = <<>> THEN <<>>
  ELSE IF Head(paths) \in existing THEN <<Head(paths)>>
       ELSE <<Head(paths)>> \o ProbedUpTo(Tail(paths))

\* (mutant) the loop without its break: the last of the paths that exists
RECURSIVE LastExisting(_)
LastExisting(paths) ==
  IF paths = <<>> THEN None
  ELSE IF LastExisting(Tail(paths)) # None THEN LastExisting(Tail(paths))
       ELSE IF Head(paths) \in existing THEN Head(paths) ELSE None

\* lines 840-846: the first of the paths that exists, None when none does
RECURSIVE FirstExisting(_)
FirstExisting(paths) ==
  IF paths = <<>> THEN None
  ELSE IF Head(paths) \in existing THEN Head(paths)
       ELSE FirstExisting(Tail(paths))

\* the file paths callers give: the empty string, a relative one, an absolute one
FilePaths == { <<>>, <<FileName>>, TmpDir \o <<FileName>> }

\* every path at which a file may exist
FileSystemPaths ==
  { WorkDir \o <<FileName>>, HomeDir \o <<FileName>>,
    HomeDir \o <<Desktop, FileName>>, HomeDir \o <<Downloads, FileName>>,
    TmpDir \o <<FileName>> }

\* the bytes of the file at a path: every file differs from the others
ContentOf(path) ==
  CASE path = WorkDir \o <<FileName>>                -> <<87>>
    [] path = HomeDir \o <<FileName>>                -> <<72, 79>>
    [] path = HomeDir \o <<Desktop, FileName>>     -> <<68, 69, 83>>
    [] path = HomeDir \o <<Downloads, FileName>>   -> <<68, 79, 87, 78>>
    [] OTHER                                        -> <<0, 255>>

\* ---- content-type inference

UpperCase ==
  << "A", "B", "C", "D", "E", "F", "G", "H", "I", "J", "K", "L", "M",
     "N", "O", "P", "Q", "R", "S", "T", "U", "V", "W", "X", "Y", "Z" >>
LowerCase ==
  << "a", "b", "c", "d", "e", "f", "g", "h", "i", "j", "k", "l", "m",
     "n", "o", "p", "q", "r", "s", "t", "u", "v", "w", "x", "y", "z" >>

\* String.prototype.toLowerCase
ToLowerCase(str) ==
  [i \in DOMAIN str |->
     IF \E j \in DOMAIN UpperCase : UpperCase[j] = str[i]
     THEN LowerCase[CHOOSE j \in DOMAIN UpperCase : UpperCase[j] = str[i]]
     ELSE str[i]]

\* the own properties of the object literal mimeTypes (886-900)
mimeTypes ==
     (<<"j", "p", "g">>      :> Str("image/jpeg"))
  @@ (<<"j", "p", "e", "g">> :> Str("image/jpeg"))
  @@ (<<"p", "n", "g">>      :> Str("image/png"))
  @@ (<<"g", "i", "f">>      :> Str("image/gif"))
  @@ (<<"p", "d", "f">>      :> Str("application/pdf"))
  @@ (<<"t", "x", "t">>      :> Str("text/plain"))
  @@ (<<"d", "o", "c">>      :> Str("application/msword"))
  @@ (<<"d", "o", "c", "x">> :> Str("application/vnd.openxmlformats-officedocument.wordprocessingml.document"))
  @@ (<<"x", "l", "s">>      :> Str("application/vnd.ms-excel"))
  @@ (<<"x", "l", "s", "x">> :> Str("application/vnd.openxmlformats-officedocument.spreadsheetml.sheet"))
  @@ (<<"z", "i", "p">>      :> Str("application/zip"))
  @@ (<<"m", "p", "4">>      :> Str("video/mp4"))
  @@ (<<"m", "p", "3">>      :> Str("audio/mpeg"))

\* the keys of mimeTypes
MimeKeys == DOMAIN mimeTypes

\* the properties an object literal inherits from Object.prototype whose
\* names hold no upper-case letter (the only ones a lower-cased key can name)
ConstructorKey == <<"c", "o", "n", "s", "t", "r", "u", "c", "t", "o", "r">>
ProtoKey == <<"_", "_", "p", "r", "o", "t", "o", "_", "_">>

\* mimeTypes[ext] (901): an own property, else an inherited one, else undefined
GetProperty(ext) ==
  IF ext \in MimeKeys THEN mimeTypes[ext]
  ELSE IF ext = ConstructorKey THEN <<"function", "Object">>
  ELSE IF ext = ProtoKey THEN <<"object", "Object.prototype">>
  ELSE Undefined

\* Array.prototype.pop on the result of split: its last element
Pop(parts) == parts[Len(parts)]

\* detectMimeType, lines 884-902
detectMimeType(fileName) ==
  LET ext == Pop(Split(ToLowerCase(fileName), "."))
      found == GetProperty(ext)
  IN IF found # Undefined THEN found ELSE Str("application/octet-stream")

\* ---- the calls

UploadCalls ==
  [op : {"uploadAttachment"}, itemType : ItemTypes, itemId : ItemIds,
   fileData : [isString : {TRUE}, text : StringsUpTo(MaxDataLen)]
                \cup {[isString |-> FALSE, text |-> <<>>]},
   fileName : {<<>>, PngName}, mimeType : {Undefined, Str("image/png")},
   description : {"", "notes"}]

FromPathCalls ==
  [op : {"uploadAttachmentFromPath"}, itemType : ItemTypes, itemId : ItemIds,
   filePath : FilePaths, description : {"", "notes"}]

\* the characters the generated file names are built from
NameChars == {"p", "d", "f", "D", "."}

RECURSIVE NamesUpTo(_)
NamesUpTo(n) ==
  IF n = 0 THEN {<<>>}
  ELSE LET shorter == NamesUpTo(n - 1)
       IN shorter \cup {Append(t, ch) : t \in shorter, ch \in NameChars}

\* the file names detectMimeType is called with: one per key of the table,
\* names with an extension the table does not hold, and the generated ones
FileNames ==
  { <<"a", ".">> \o k : k \in MimeKeys }
    \cup { <<"r", "e", "p", "o", "r", "t", ".", "p", "d", "f">>,
           <<"r", "e", "p", "o", "r", "t", ".", "x", "y", "z">>,
           <<"a", ".">> \o ConstructorKey,
           <<"a", ".">> \o ProtoKey }
    \cup NamesUpTo(MaxNameLen)

MimeCalls == [op : {"detectMimeType"}, fileName : FileNames]

\* Number.prototype.toString for the identifiers of the model
Decimal == <<"0", "1", "2", "3", "4", "5", "6", "7", "8", "9">>
NumberToString(n) == Str(Decimal[n + 1])

\* what getItemData gives (992-997): response.data, which may be null, an
\* item without a project or an item of project 7
ItemDatas == {Null, <<"object", Undefined>>, <<"object", Num(7)>>}
\* getItemData raised
LookupError == <<"error">>

\* (mutant) every kind is taken to the issue family
getAttachmentEndpointIssuesOnly(itemType) == "ISSUE_ATTACHMENTS"

\* endpoints[itemType] || API_ENDPOINTS.ISSUE_ATTACHMENTS (1004-1009)
getAttachmentEndpoint(itemType) ==
  CASE itemType = "issue"         -> "ISSUE_ATTACHMENTS"
    [] itemType = "user_story"    -> "USERSTORY_ATTACHMENTS"
    [] itemType = "task"          -> "TASK_ATTACHMENTS"
    [] itemType \in InheritedKeys -> Inherited(itemType)
    [] OTHER                      -> "ISSUE_ATTACHMENTS"

\* the item kinds the three lookups are applied to: the three known ones,
\* unknown ones, and names of inherited properties
ItemKinds == ItemTypes \cup {"", "milestone"} \cup InheritedKeys

RoutingCalls == [op : {"routing"}, itemType : ItemKinds]

\* the error uploadAttachmentFromPath raises for the error of its body (875)
FromPathError(msg) == <<"Failed to upload attachment from path: ">> \o msg

\* the error uploadAttachment raises for an error of its body that carries
\* no response (777-793)
UploadError(msg) == <<"Failed to upload attachment to Taiga: ">> \o msg

\* (mutant) the status 413 is not told apart
UploadStatusErrorNo413(status) ==
  CASE status = 401 -> <<"Authentication failed - please check credentials">>
    [] status = 404 -> <<"Upload endpoint not found - check item ID and type">>
    [] OTHER        -> UploadError(<<"<message>">>)

\* the error uploadAttachment raises for a failed upload request (785-793)
UploadStatusError(status) ==
  CASE status = 413 -> <<"File too large for upload">>
    [] status = 401 -> <<"Authentication failed - please check credentials">>
    [] status = 404 -> <<"Upload endpoint not found - check item ID and type">>
    [] OTHER        -> UploadError(<<"<message>">>)

\* what the caller of the operation gets when uploadAttachment raises msg
Raised(msg) ==
  [ok |-> FALSE,
   msg |-> IF attCall.op = "uploadAttachmentFromPath" THEN FromPathError(msg) ELSE msg]

\* (mutant) only the type of fileData is tested
InvalidFileDataTypeOnly(fileData) == ~fileData.isString

\* !fileData || typeof fileData !== 'string' (725)
InvalidFileData(fileData) == ~fileData.isString \/ fileData.text = <<>>

\* !fileName || typeof fileName !== 'string' (729); every file name of the
\* model is a string
InvalidFileName(fileName) == fileName = <<>>

\* the messages of the validation errors (726, 730, 814)
InvalidFileDataMessage == <<"Invalid file data: fileData must be a base64 encoded string">>
InvalidFileNameMessage == <<"Invalid file name: fileName is required">>
InvalidFilePathMessage(filePath) == <<"Invalid file path: ">> \o filePath

\* (mutant) the form also carries the MIME type it was given
FormOfWithContentType(u, bytes) ==
  LET form == [object_id |-> NumberToString(u.itemId),
               attached_file |-> [bytes |-> bytes, name |-> u.fileName]]
      described == IF u.description # ""
                   THEN ("description" :> u.description) @@ form
                   ELSE form
  IN IF u.mimeType # Undefined
     THEN ("content_type" :> u.mimeType) @@ described
     ELSE described

\* the form of lines 744-753: the item identifier, the file under its name,
\* and the description when there is one
FormOf(u, bytes) ==
  LET form == [object_id |-> NumberToString(u.itemId),
               attached_file |-> [bytes |-> bytes, name |-> u.fileName]]
  IN IF u.description # ""
     THEN ("description" :> u.description) @@ form
     ELSE form

\* uploadAttachment from its validation to its first request (721-757):
\* validation, decoding, the form, and the lookup of the owning item
Validated ==
  /\ attPc = "auth"
  /\ LET u == upload IN
     IF InvalidFileData(u.fileData)
     THEN /\ attPc' = "done"
          /\ attOutcome' = Raised(UploadError(InvalidFileDataMessage))
          /\ UNCHANGED <<base64Data, fileBuffer, formData, itemData, postError, requests>>
     ELSE IF InvalidFileName(u.fileName)
     THEN /\ attPc' = "done"
          /\ attOutcome' = Raised(UploadError(InvalidFileNameMessage))
          /\ UNCHANGED <<base64Data, fileBuffer, formData, itemData, postError, requests>>
     ELSE /\ base64Data' = StripDataUri(u.fileData.text)
          /\ fileBuffer' = BufferFromBase64(base64Data')
          /\ formData' = FormOf(u, fileBuffer')
          /\ requests' = Append(requests, <<"GET", getItemEndpoint(u.itemType), u.itemId>>)
          /\ attPc' = "lookup"
          /\ UNCHANGED <<itemData, postError, attOutcome>>
  /\ UNCHANGED <<attCall, cwd, existing, searched, absolutePath, filesRead, upload>>
  /\ UNCHANGED <<pageVars, mutVars, downloadVars, toolVars>>

\* 715-719, 777-793: the authenticated client or its token cannot be had
AuthFails ==
  /\ attPc = "auth"
  /\ attPc' = "done"
  /\ attOutcome' = Raised(UploadError(<<"<message>">>))
  /\ UNCHANGED <<attCall, cwd, existing, searched, absolutePath, filesRead,
                 upload, base64Data, fileBuffer, formData, itemData, postError, requests>>
  /\ UNCHANGED <<pageVars, mutVars, downloadVars, toolVars>>

\* uploadAttachment is entered with arguments u and awaits the authenticated
\* client and its token (711-719)
UploadBegins(u) ==
  /\ upload' = u
  /\ attPc' = "auth"
  /\ UNCHANGED <<base64Data, fileBuffer, formData, itemData, postError, requests, attOutcome>>

\* uploadAttachment is called
UploadAttachment ==
  /\ attPc = "start"
  /\ attCall.op = "uploadAttachment"
  /\ UploadBegins([itemType |-> attCall.itemType, itemId |-> attCall.itemId,
                   fileData |-> attCall.fileData, fileName |-> attCall.fileName,
                   mimeType |-> attCall.mimeType,
                   description |-> attCall.description])
  /\ UNCHANGED <<attCall, cwd, existing, searched, absolutePath, filesRead>>
  /\ UNCHANGED <<pageVars, mutVars, downloadVars, toolVars>>

\* uploadAttachmentFromPath is called (805-872)
UploadAttachmentFromPath ==
  /\ attPc = "start"
  /\ attCall.op = "uploadAttachmentFromPath"
  /\ LET filePath == attCall.filePath IN
     IF filePath = <<>>
     THEN /\ attPc' = "done"
          /\ attOutcome' = Raised(InvalidFilePathMessage(filePath))
          /\ UNCHANGED <<searched, absolutePath, filesRead, upload, base64Data,
                         fileBuffer, formData, itemData, postError, requests>>
     ELSE LET tried == IF IsAbsolute(filePath) THEN <<filePath>>
                       ELSE ProbedUpTo(possiblePaths(filePath))
              found == IF IsAbsolute(filePath)
                       THEN IF filePath \in existing THEN filePath ELSE None
                       ELSE FirstExisting(possiblePaths(filePath))
          IN /\ searched' = tried
             /\ absolutePath' = found
             /\ IF found = None
                THEN /\ attPc' = "done"
                     /\ attOutcome' = Raised(<<"File not found. Searched paths:">>
                                               \o searchedPaths(filePath))
                     /\ UNCHANGED <<filesRead, upload, base64Data, fileBuffer,
                                    formData, itemData, postError, requests>>
                ELSE /\ filesRead' = Append(filesRead, found)
                     /\ UploadBegins([itemType |-> attCall.itemType,
                                      itemId |-> attCall.itemId,
                                      fileData |-> [isString |-> TRUE,
                                                    text |-> ToBase64(ContentOf(found))],
                                      fileName |-> Basename(found),
                                      mimeType |-> detectMimeType(Basename(found)),
                                      description |-> attCall.description])
  /\ UNCHANGED <<attCall, cwd, existing>>
  /\ UNCHANGED <<pageVars, mutVars, downloadVars, toolVars>>

\* the three lookups are applied to an item kind (651-671, 1003-1010)
RouteItemKind ==
  /\ attPc = "start"
  /\ attCall.op = "routing"
  /\ attPc' = "done"
  /\ attOutcome' = [ok |-> TRUE,
                    msg |-> <<getItemEndpoint(attCall.itemType),
                              getHistoryObjectType(attCall.itemType),
                              getAttachmentEndpoint(attCall.itemType)>>]
  /\ UNCHANGED <<attCall, cwd, existing, searched, absolutePath, filesRead,
                 upload, base64Data, fileBuffer, formData, itemData, postError, requests>>
  /\ UNCHANGED <<pageVars, mutVars, downloadVars, toolVars>>

\* detectMimeType is called (884-902)
DetectMimeType ==
  /\ attPc = "start"
  /\ attCall.op = "detectMimeType"
  /\ attPc' = "done"
  /\ attOutcome' = [ok |-> TRUE, msg |-> detectMimeType(attCall.fileName)]
  /\ UNCHANGED <<attCall, cwd, existing, searched, absolutePath, filesRead,
                 upload, base64Data, fileBuffer, formData, itemData, postError, requests>>
  /\ UNCHANGED <<pageVars, mutVars, downloadVars, toolVars>>

\* 757-766: the lookup of the owning item returned data; its project, when
\* it has one, is added to the form and the upload request is sent
LookupReturns(data) ==
  /\ attPc = "lookup"
  /\ itemData' = data
  /\ formData' = IF TypeOf(data) = "object" /\ TypeOf(data[2]) = "number"
                 THEN ("project" :> NumberToString(data[2][2])) @@ formData
                 ELSE formData
  /\ requests' = Append(requests, <<"POST", getAttachmentEndpoint(upload.itemType), formData'>>)
  /\ attPc' = "posting"
  /\ UNCHANGED <<attCall, cwd, existing, searched, absolutePath, filesRead,
                 upload, base64Data, fileBuffer, postError, attOutcome>>
  /\ UNCHANGED <<pageVars, mutVars, downloadVars, toolVars>>

\* (mutant) a failed lookup ends the upload
LookupFailsAborting ==
  /\ attPc = "lookup"
  /\ itemData' = LookupError
  /\ attPc' = "done"
  /\ attOutcome' = Raised(UploadError(<<"<message>">>))
  /\ UNCHANGED <<attCall, cwd, existing, searched, absolutePath, filesRead,
                 upload, base64Data, fileBuffer, formData, postError, requests>>
  /\ UNCHANGED <<pageVars, mutVars, downloadVars, toolVars>>

\* 761-766: the lookup failed (getItemData raised); the failure is dropped
\* and the upload request is sent
LookupFails ==
  /\ attPc = "lookup"
  /\ itemData' = LookupError
  /\ requests' = Append(requests, <<"POST", getAttachmentEndpoint(upload.itemType), formData>>)
  /\ attPc' = "posting"
  /\ UNCHANGED <<attCall, cwd, existing, searched, absolutePath, filesRead,
                 upload, base64Data, fileBuffer, formData, postError, attOutcome>>
  /\ UNCHANGED <<pageVars, mutVars, downloadVars, toolVars>>

\* 775: the upload request succeeded
PostReturns ==
  /\ attPc = "posting"
  /\ attPc' = "done"
  /\ attOutcome' = [ok |-> TRUE, msg |-> <<"response.data">>]
  /\ UNCHANGED <<attCall, cwd, existing, searched, absolutePath, filesRead,
                 upload, base64Data, fileBuffer, formData, itemData, postError, requests>>
  /\ UNCHANGED <<pageVars, mutVars, downloadVars, toolVars>>

\* 777-793: the upload request failed with `status`
PostFails(status) ==
  /\ attPc = "posting"
  /\ attPc' = "done"
  /\ attOutcome' = Raised(UploadStatusError(status))
  /\ postError' = Num(status)
  /\ UNCHANGED <<attCall, cwd, existing, searched, absolutePath, filesRead,
                 upload, base64Data, fileBuffer, formData, itemData, requests>>
  /\ UNCHANGED <<pageVars, mutVars, downloadVars, toolVars>>

\* the statuses a failing upload request can carry
PostFailures == {400, 401, 403, 404, 413, 500}

\* ---- downloadAttachment (934-971)

\* the metadata of an attachment before it was fetched
NoMetadata == [url |-> None, name |-> None, size |-> None]
\* the outcome of a call that has not settled
NoOutcome == [ok |-> FALSE, msg |-> <<"pending">>]
\* the write stream before it was created
NoWriter == [path |-> None, written |-> 0, total |-> 0, state |-> "none"]

\* the attachment records the remote service may return: with or without
\* a name
Metadatas ==
  [url : {Str("https://media/f")}, name : {Undefined, Str(FileName)}, size : {Num(3)}]

DownloadCalls ==
  [op : {"downloadAttachment"}, attachmentId : {5},
   downloadPath : {Undefined, Str(TmpDir \o <<FileName>>)}]

\* the error downloadAttachment raises from its catch (967-970)
DownloadError == <<"Failed to download attachment from Taiga">>

\* attachment.name || `attachment_${attachmentId}` (950)
FilenameOf(m, attachmentId) ==
  IF m.name # Undefined THEN m.name
  ELSE <<"string", <<"attachment_">> \o NumberToString(attachmentId)[2]>>

\* downloadPath || path.join(process.cwd(), filename) (951)
SavedPathOf(downloadPath, m, attachmentId) ==
  IF downloadPath # Undefined THEN downloadPath
  ELSE Str(cwd \o <<FilenameOf(m, attachmentId)[2]>>)

\* 936-941: the call obtains its client and requests the metadata
DownloadAttachment ==
  /\ attPc = "start"
  /\ attCall.op = "downloadAttachment"
  /\ requests' = Append(requests, <<"GET", "ISSUE_ATTACHMENTS", attCall.attachmentId>>)
  /\ attPc' = "metadata"
  /\ UNCHANGED <<metadata, writer, attOutcome>>
  /\ UNCHANGED <<uploadVars, pageVars, mutVars, toolVars>>

\* 941-947: the metadata arrived; the content is requested from its url
MetadataReturns(m) ==
  /\ attPc = "metadata"
  /\ metadata' = m
  /\ requests' = Append(requests, <<"GET", m.url, "stream">>)
  /\ attPc' = "content"
  /\ UNCHANGED <<writer, attOutcome>>
  /\ UNCHANGED <<uploadVars, pageVars, mutVars, toolVars>>

\* 941, 945, 967-970: a request failed; the call raises
DownloadRequestFails ==
  /\ attPc \in {"metadata", "content"}
  /\ attPc' = "done"
  /\ attOutcome' = [ok |-> FALSE, msg |-> DownloadError]
  /\ UNCHANGED <<metadata, writer, requests>>
  /\ UNCHANGED <<uploadVars, pageVars, mutVars, toolVars>>

\* (mutant) the call returns its result as soon as the stream is piped
ContentReturnsResolving(chunks) ==
  /\ attPc = "content"
  /\ writer' = [path |-> SavedPathOf(attCall.downloadPath, metadata, attCall.attachmentId),
                written |-> 0, total |-> chunks, state |-> "open"]
  /\ attPc' = "done"
  /\ attOutcome' = [ok |-> TRUE,
                    msg |-> <<FilenameOf(metadata, attCall.attachmentId), writer'.path,
                              metadata.size>>]
  /\ UNCHANGED <<metadata, requests>>
  /\ UNCHANGED <<uploadVars, pageVars, mutVars, toolVars>>

\* 945-966: the content stream of `chunks` chunks arrived; the write stream
\* is created, the content piped into it, and the pending promise returned
ContentReturns(chunks) ==
  /\ attPc = "content"
  /\ writer' = [path |-> SavedPathOf(attCall.downloadPath, metadata, attCall.attachmentId),
                written |-> 0, total |-> chunks, state |-> "open"]
  /\ attPc' = "writing"
  /\ UNCHANGED <<metadata, requests, attOutcome>>
  /\ UNCHANGED <<uploadVars, pageVars, mutVars, toolVars>>

\* 955: the pipe hands the next chunk to the write stream
ChunkWritten ==
  /\ attPc = "writing"
  /\ writer.state = "open"
  /\ writer.written < writer.total
  /\ writer' = [writer EXCEPT !.written = @ + 1]
  /\ UNCHANGED <<metadata, requests, attOutcome, attPc>>
  /\ UNCHANGED <<uploadVars, pageVars, mutVars, toolVars>>

\* 958-964: the content ended and everything is written: the write stream
\* emits 'finish' and the promise resolves
WriterFinishes ==
  /\ attPc = "writing"
  /\ writer.state = "open"
  /\ writer.written = writer.total
  /\ writer' = [writer EXCEPT !.state = "finished"]
  /\ attPc' = "done"
  /\ attOutcome' = [ok |-> TRUE,
                    msg |-> <<FilenameOf(metadata, attCall.attachmentId), writer.path,
                              metadata.size>>]
  /\ UNCHANGED <<metadata, requests>>
  /\ UNCHANGED <<uploadVars, pageVars, mutVars, toolVars>>

\* 965: the write stream emits 'error' (the file cannot be opened or
\* written) and the promise rejects with that error
WriterErrors ==
  /\ attPc = "writing"
  /\ writer.state = "open"
  /\ writer' = [writer EXCEPT !.state = "errored"]
  /\ attPc' = "done"
  /\ attOutcome' = [ok |-> FALSE, msg |-> <<"<write error>">>]
  /\ UNCHANGED <<metadata, requests>>
  /\ UNCHANGED <<uploadVars, pageVars, mutVars, toolVars>>

\* 955: the content stream breaks off; pipe() does not pass the error on,
\* the write stream is left open, and the promise stays pending
SourceErrors ==
  /\ attPc = "writing"
  /\ writer.state = "open"
  /\ writer.written < writer.total
  /\ writer' = [writer EXCEPT !.state = "stalled"]
  /\ UNCHANGED <<metadata, requests, attOutcome, attPc>>
  /\ UNCHANGED <<uploadVars, pageVars, mutVars, toolVars>>

\* ---- listAttachments (910-926) and deleteAttachment (978-986)

ListAttachmentCalls ==
  [op : {"listAttachments"}, itemType : ItemTypes, itemId : ItemIds]

DeleteCalls == [op : {"deleteAttachment"}, attachmentId : {5}]

\* 912-919: the attachments of an item are requested from the family of its kind
ListAttachments ==
  /\ attPc = "start"
  /\ attCall.op = "listAttachments"
  /\ requests' = Append(requests, <<"GET", getAttachmentEndpoint(attCall.itemType),
                                    <<"object_id", attCall.itemId>>>>)
  /\ attPc' = "listing"
  /\ UNCHANGED attOutcome
  /\ UNCHANGED <<uploadVars, downloadVars, pageVars, mutVars, toolVars>>

\* 912: no authenticated client could be made; nothing is requested
ListAttachmentsClientFails ==
  /\ attPc = "start"
  /\ attCall.op = "listAttachments"
  /\ attPc' = "done"
  /\ attOutcome' = [ok |-> FALSE, msg |-> <<"Failed to list attachments from Taiga">>]
  /\ UNCHANGED requests
  /\ UNCHANGED <<uploadVars, downloadVars, pageVars, mutVars, toolVars>>

\* 921: the list arrived
ListAttachmentsReturns ==
  /\ attPc = "listing"
  /\ attPc' = "done"
  /\ attOutcome' = [ok |-> TRUE, msg |-> <<"response.data">>]
  /\ UNCHANGED requests
  /\ UNCHANGED <<uploadVars, downloadVars, pageVars, mutVars, toolVars>>

\* 922-925: the request failed
ListAttachmentsFails ==
  /\ attPc = "listing"
  /\ attPc' = "done"
  /\ attOutcome' = [ok |-> FALSE, msg |-> <<"Failed to list attachments from Taiga">>]
  /\ UNCHANGED requests
  /\ UNCHANGED <<uploadVars, downloadVars, pageVars, mutVars, toolVars>>

\* 980-981: the attachment is deleted by its identifier
DeleteAttachment ==
  /\ attPc = "start"
  /\ attCall.op = "deleteAttachment"
  /\ requests' = Append(requests, <<"DELETE", "ISSUE_ATTACHMENTS", attCall.attachmentId>>)
  /\ attPc' = "deleting"
  /\ UNCHANGED attOutcome
  /\ UNCHANGED <<uploadVars, downloadVars, pageVars, mutVars, toolVars>>

\* 980: no authenticated client could be made; nothing is requested
DeleteClientFails ==
  /\ attPc = "start"
  /\ attCall.op = "deleteAttachment"
  /\ attPc' = "done"
  /\ attOutcome' = [ok |-> FALSE, msg |-> <<"Failed to delete attachment from Taiga">>]
  /\ UNCHANGED requests
  /\ UNCHANGED <<uploadVars, downloadVars, pageVars, mutVars, toolVars>>

\* 981: the attachment is gone; the call returns nothing
DeleteReturns ==
  /\ attPc = "deleting"
  /\ attPc' = "done"
  /\ attOutcome' = [ok |-> TRUE, msg |-> <<"undefined">>]
  /\ UNCHANGED requests
  /\ UNCHANGED <<uploadVars, downloadVars, pageVars, mutVars, toolVars>>

\* 982-985: the request failed
DeleteFails ==
  /\ attPc = "deleting"
  /\ attPc' = "done"
  /\ attOutcome' = [ok |-> FALSE, msg |-> <<"Failed to delete attachment from Taiga">>]
  /\ UNCHANGED requests
  /\ UNCHANGED <<uploadVars, downloadVars, pageVars, mutVars, toolVars>>

\* the calls a caller makes about the attachment an upload has created: it
\* lists the attachments of the item, downloads the attachment, deletes it
FollowUpOps == {"listAttachments", "downloadAttachment", "deleteAttachment"}

FollowUpCall(op) ==
  CASE op = "listAttachments" ->
         [op |-> op, itemType |-> upload.itemType, itemId |-> upload.itemId]
    [] op = "downloadAttachment" ->
         [op |-> op, attachmentId |-> 5, downloadPath |-> Undefined]
    [] op = "deleteAttachment" ->
         [op |-> op, attachmentId |-> 5]

\* after an upload has returned, its caller makes a further call
FollowUp(op) ==
  /\ attPc = "done"
  /\ attCall.op = "uploadAttachment"
  /\ attOutcome.ok
  /\ attCall' = FollowUpCall(op)
  /\ attPc' = "start"
  /\ attOutcome' = NoOutcome
  /\ UNCHANGED <<cwd, existing, searched, absolutePath, filesRead,
                 upload, base64Data, fileBuffer, formData, itemData, postError>>
  /\ UNCHANGED requests
  /\ UNCHANGED <<downloadVars, pageVars, mutVars, toolVars>>

\* no attachment operation is under way
AttIdle ==
  /\ attCall = None
  /\ cwd = WorkDir
  /\ existing = {}
  /\ attPc = "idle"
  /\ searched = <<>>
  /\ absolutePath = None
  /\ filesRead = <<>>
  /\ upload = None
  /\ base64Data = None
  /\ fileBuffer = None
  /\ formData = None
  /\ itemData = None
  /\ postError = None
  /\ metadata = NoMetadata
  /\ writer = NoWriter
  /\ requests = <<>>
  /\ attOutcome = NoOutcome

AttInit ==
  /\ \/ /\ attCall \in UploadCalls
        /\ cwd = WorkDir
        /\ existing = {}
     \/ /\ attCall \in FromPathCalls
        /\ cwd \in {WorkDir, HomeDir}
        /\ existing \in SUBSET FileSystemPaths
     \/ /\ attCall \in MimeCalls
        /\ cwd = WorkDir
        /\ existing = {}
     \/ /\ attCall \in RoutingCalls
        /\ cwd = WorkDir
        /\ existing = {}
     \/ /\ attCall \in DownloadCalls
        /\ cwd \in {WorkDir, HomeDir}
        /\ existing = {}
     \/ /\ attCall \in ListAttachmentCalls \cup DeleteCalls
        /\ cwd = WorkDir
        /\ existing = {}
  /\ attPc = "start"
  /\ searched = <<>>
  /\ absolutePath = None
  /\ filesRead = <<>>
  /\ upload = None
  /\ base64Data = None
  /\ fileBuffer = None
  /\ formData = None
  /\ itemData = None
  /\ postError = None
  /\ metadata = NoMetadata
  /\ writer = NoWriter
  /\ requests = <<>>
  /\ attOutcome = NoOutcome

AttNext ==
  \/ UploadAttachment
  \/ UploadAttachmentFromPath
  \/ DetectMimeType
  \/ RouteItemKind
  \/ Validated
  \/ AuthFails
  \/ \E data \in ItemDatas : LookupReturns(data)
  \/ LookupFails
  \/ PostReturns
  \/ \E status \in PostFailures : PostFails(status)
  \/ DownloadAttachment
  \/ \E m \in Metadatas : MetadataReturns(m)
  \/ DownloadRequestFails
  \/ \E chunks \in 0..MaxChunks : ContentReturns(chunks)
  \/ ChunkWritten
  \/ WriterFinishes
  \/ WriterErrors
  \/ SourceErrors
  \/ ListAttachments
  \/ ListAttachmentsClientFails
  \/ ListAttachmentsReturns
  \/ ListAttachmentsFails
  \/ DeleteAttachment
  \/ DeleteClientFails
  \/ DeleteReturns
  \/ DeleteFails

\* an upload of one byte to an item of any kind, or a call that lists,
\* downloads or deletes
FamilyInit ==
  /\ AttInit
  /\ \/ /\ attCall \in UploadCalls
        /\ attCall.fileData = [isString |-> TRUE, text |-> <<"Q", "U", "=", "=">>]
        /\ attCall.fileName = PngName
        /\ attCall.mimeType = Undefined
        /\ attCall.description = ""
     \/ attCall \in DownloadCalls \cup ListAttachmentCalls \cup DeleteCalls

FamilyNext ==
  \/ UploadAttachment
  \/ Validated
  \/ AuthFails
  \/ \E data \in ItemDatas : LookupReturns(data)
  \/ LookupFails
  \/ PostReturns
  \/ \E status \in PostFailures : PostFails(status)
  \/ \E op \in FollowUpOps : FollowUp(op)
  \/ ListAttachments
  \/ ListAttachmentsClientFails
  \/ ListAttachmentsReturns
  \/ ListAttachmentsFails
  \/ DeleteAttachment
  \/ DeleteClientFails
  \/ DeleteReturns
  \/ DeleteFails
  \/ DownloadAttachment
  \/ \E m \in Metadatas : MetadataReturns(m)
  \/ DownloadRequestFails
  \/ \E chunks \in 0..MaxChunks : ContentReturns(chunks)
  \/ ChunkWritten
  \/ WriterFinishes
  \/ WriterErrors
  \/ SourceErrors


(***************************************************************************)
(* Pagination engine                                                       *)
(***************************************************************************)

\* The responses a page-fetching function can give.  shape:
\*   "array"     response.data is a bare array of len items
\*   "envelope"  response.data is {results: [len items], next: ...}; next is
\*               TRUE for a truthy "next" indicator, FALSE for null/absent
\*   "object"    response.data is a truthy non-array value whose results is
\*               not an array: absent/falsy (len = 0) or a truthy scalar (len = 1)
\*   "bare"      response has no (truthy) data and is itself an array of len items
\*   "plain"     response has no (truthy) data and is not an array
\*   "throw"     the call raises (a rejected promise, or a null response whose
\*               .data access raises inside the try block)
Response ==
  [shape : {"array"}, len : 0..MaxPageLen, next : {FALSE}]
    \cup [shape : {"envelope"}, len : 0..MaxPageLen, next : BOOLEAN]
    \cup [shape : {"object"}, len : {0, 1}, next : BOOLEAN]
    \cup [shape : {"bare"}, len : 0..MaxPageLen, next : {FALSE}]
    \cup [shape : {"plain", "throw"}, len : {0}, next : {FALSE}]

\* The items of page p when it holds n of them: all items are distinct, and
\* an item records the page and the position it came from.
PageItems(p, n) == [i \in 1..n |-> <<p, i>>]

\* The truthy non-array value a malformed envelope carries as "results".
ScalarResults(p) == <<p, 0>>

\* response.data is truthy (pagination.js:33); an empty array is truthy
HasData(r) == r.shape \in {"array", "envelope", "object"}

\* (mutant) a response without a body adds nothing, array or not
ItemsOfBodyOnly(r, p) ==
  IF HasData(r)
  THEN CASE r.shape = "array"    -> PageItems(p, r.len)
         [] r.shape = "envelope" -> PageItems(p, r.len)
         [] OTHER                -> IF r.len = 1 THEN ScalarResults(p) ELSE <<>>
  ELSE <<>>

\* `items` after the classification of lines 30-53
ItemsOf(r, p) ==
  IF HasData(r)
  THEN CASE r.shape = "array"    -> PageItems(p, r.len)
         [] r.shape = "envelope" -> PageItems(p, r.len)
         [] OTHER                -> IF r.len = 1 THEN ScalarResults(p) ELSE <<>>
  ELSE IF r.shape = "bare" THEN PageItems(p, r.len) ELSE <<>>

\* (mutant) a bare array is taken for a page with more to come
HasMoreOfArrayToo(r) ==
  IF r.shape = "envelope" THEN r.next ELSE r.shape = "array"

\* `hasMore` after the classification of lines 30-53: only an envelope with
\* a results array and a truthy "next" continues
HasMoreOf(r) ==
  IF r.shape = "envelope" THEN r.next ELSE FALSE

\* (mutant) the page replaces the accumulator
ConcatReplaces(acc, r, p) ==
  IF r.shape = "object" /\ r.len = 1 THEN <<ItemsOf(r, p)>> ELSE ItemsOf(r, p)

\* Array.prototype.concat: an array argument is spread (one level), any other
\* value is appended as a single element (line 56)
Concat(acc, r, p) ==
  IF r.shape = "object" /\ r.len = 1
  THEN Append(acc, ItemsOf(r, p))
  ELSE acc \o ItemsOf(r, p)

\* items.length === 0 (line 59); a scalar has no length 0
ItemsEmpty(r) ==
  IF r.shape = "object" /\ r.len = 1 THEN FALSE ELSE Len(ItemsOf(r, 1)) = 0

\* (mutant) an empty page does not end the loop
BreaksWithoutMoreOnly(r) == ~HasMoreOf(r)

\* lines 59-61: break
Breaks(r) == ~HasMoreOf(r) \/ ItemsEmpty(r)

\* (mutant) the loop test without the page limit
LoopOrReturnUnlimited(items, page, more) ==
  IF more
  THEN /\ pagePc' = "await"
       /\ calls' = Append(calls, page)
       /\ pageResult' = pageResult
  ELSE /\ pagePc' = "done"
       /\ calls' = calls
       /\ pageResult' = items

\* (mutant) the loop test stops one page early
LoopOrReturnOneShort(items, page, more) ==
  IF more /\ page < maxPages
  THEN /\ pagePc' = "await"
       /\ calls' = Append(calls, page)
       /\ pageResult' = pageResult
  ELSE /\ pagePc' = "done"
       /\ calls' = calls
       /\ pageResult' = items

\* The loop test of line 19 followed by either the next call of
\* fetchFunction (line 27) or the return of line 75.
LoopOrReturn(items, page, more) ==
  IF more /\ page <= maxPages
  THEN /\ pagePc' = "await"
       /\ calls' = Append(calls, page)
       /\ pageResult' = pageResult
  ELSE /\ pagePc' = "done"
       /\ calls' = calls
       /\ pageResult' = items

\* ---- query parameters: a parameter set is a set of <<name, value>> pairs

\* {...base, ...over}: the later spread wins
Override(base, over) ==
  {kv \in base : \A o \in over : o[1] # kv[1]} \cup over

\* (mutant) {page: currentPage, ...initialParams}: a page of the caller's wins
ParamsOfCallerWins(initialParams, page) == Override({<<"page", page>>}, initialParams)

\* lines 22-25: {...initialParams, page: currentPage}
ParamsOf(initialParams, page) == Override(initialParams, {<<"page", page>>})

\* maxPages = 100 (line 14)
DefaultMaxPages == 100

\* the list operations of TaigaService
ListOps == {"listProjects", "listUserStories", "listIssues", "listMilestones",
            "getIssuesByMilestone", "listEpics", "listWikiPages"}

\* the endpoint each list operation requests its pages from; a direct
\* caller of fetchAllPaginated brings a function of its own
ListEndpoint(op) ==
  CASE op = "listProjects"         -> "PROJECTS"
    [] op = "listUserStories"      -> "USER_STORIES"
    [] op = "listIssues"           -> "ISSUES"
    [] op = "listMilestones"       -> "MILESTONES"
    [] op = "getIssuesByMilestone" -> "ISSUES"
    [] op = "listEpics"            -> "EPICS"
    [] op = "listWikiPages"        -> "WIKI"
    [] OTHER                       -> "fetchFunction"

\* the filters each list operation puts into every request
FiltersOf(c) ==
  CASE c.op = "listProjects"         -> {<<"member", listUser>>}
    [] c.op = "getIssuesByMilestone" -> {<<"project", c.projectId>>,
                                         <<"milestone", c.milestoneId>>}
    [] c.op \in ListOps              -> {<<"project", c.projectId>>}
    [] OTHER                         -> {}

\* (mutant) the filters are sent with the first page only
fetchPageFirstFiltered(params) ==
  [endpoint |-> ListEndpoint(listCall.op),
   params |-> IF <<"page", 1>> \in params
              THEN Override(FiltersOf(listCall), params)
              ELSE params]

\* fetchPage of the list operations (38-45, 97-104, 234-241, 401-408,
\* 497-505, 1039-1046, 1174-1181): {filter..., ...params}
fetchPage(params) ==
  [endpoint |-> ListEndpoint(listCall.op),
   params |-> Override(FiltersOf(listCall), params)]

\* what has been sent once the calls of fetchFunction are newCalls
SentAfter(newCalls) ==
  sent \o [k \in 1..(Len(newCalls) - Len(calls)) |->
            fetchPage(ParamsOf(listCall.initialParams, newCalls[Len(calls) + k]))]

\* the calls made of a list operation and, last, of fetchAllPaginated itself
\* with a starting parameter set
ListCalls ==
  [op : ListOps \ {"listProjects", "getIssuesByMilestone"},
   projectId : {3}, milestoneId : {0}, initialParams : {{}}]
    \cup [op : {"getIssuesByMilestone"},
          projectId : {3}, milestoneId : {8}, initialParams : {{}}]
    \cup [op : {"listProjects"},
          projectId : {0}, milestoneId : {0}, initialParams : {{}}]
    \cup [op : {"fetchAllPaginated"}, projectId : {0}, milestoneId : {0},
          initialParams : {{}, {<<"page", 7>>, <<"order_by", 2>>}}]

\* a call of fetchAllPaginated with the defaults of its parameters
DefaultCall ==
  [op |-> "fetchAllPaginated", projectId |-> 0, milestoneId |-> 0, initialParams |-> {}]

\* (mutant) the first two pages are requested at once
EnterPrefetching ==
  /\ pagePc = "start"
  /\ allItems' = <<>>
  /\ currentPage' = 1
  /\ hasMore' = TRUE
  /\ pagePc' = "await"
  /\ calls' = <<1, 2>>
  /\ sent' = SentAfter(calls')
  /\ UNCHANGED <<fetchFunction, maxPages, settled, pageResult, pageRaised>>
  /\ UNCHANGED <<listCall, listPc, listUser, listOutcome>>
  /\ UNCHANGED <<mutVars, attVars, toolVars>>

\* lines 15-27: the call starts and reaches its first await
Enter ==
  /\ pagePc = "start"
  /\ allItems' = <<>>
  /\ currentPage' = 1
  /\ hasMore' = TRUE
  /\ LoopOrReturn(<<>>, 1, TRUE)
  /\ sent' = SentAfter(calls')
  /\ UNCHANGED <<fetchFunction, maxPages, settled, pageRaised>>
  /\ UNCHANGED <<listCall, listPc, listUser, listOutcome>>
  /\ UNCHANGED <<mutVars, attVars, toolVars>>

\* lines 27-63: the awaited call returned a response
PageReturns ==
  /\ pagePc = "await"
  /\ LET r == fetchFunction[currentPage] IN
     /\ r.shape # "throw"
     /\ settled' = settled + 1
     /\ allItems' = Concat(allItems, r, currentPage)
     /\ hasMore' = HasMoreOf(r)
     /\ IF Breaks(r)
        THEN /\ currentPage' = currentPage
             /\ pagePc' = "done"
             /\ calls' = calls
             /\ pageResult' = allItems'
        ELSE /\ currentPage' = currentPage + 1
             /\ LoopOrReturn(allItems', currentPage + 1, HasMoreOf(r))
  /\ sent' = SentAfter(calls')
  /\ UNCHANGED <<fetchFunction, maxPages, pageRaised>>
  /\ UNCHANGED <<listCall, listPc, listUser, listOutcome>>
  /\ UNCHANGED <<mutVars, attVars, toolVars>>

\* (mutant) the error of the awaited call is not caught
PageThrowsEscapes ==
  /\ pagePc = "await"
  /\ fetchFunction[currentPage].shape = "throw"
  /\ pagePc' = "done"
  /\ pageRaised' = TRUE
  /\ settled' = settled + 1
  /\ UNCHANGED <<fetchFunction, maxPages, allItems, currentPage, hasMore,
                 calls, pageResult>>
  /\ UNCHANGED listVars
  /\ UNCHANGED <<mutVars, attVars, toolVars>>

\* (mutant) the catch gives up what was accumulated
PageThrowsEmptying ==
  /\ pagePc = "await"
  /\ fetchFunction[currentPage].shape = "throw"
  /\ pagePc' = "done"
  /\ pageResult' = <<>>
  /\ settled' = settled + 1
  /\ UNCHANGED <<fetchFunction, maxPages, allItems, currentPage, hasMore,
                 calls, pageRaised>>
  /\ UNCHANGED listVars
  /\ UNCHANGED <<mutVars, attVars, toolVars>>

\* lines 64-68 and 75: the awaited call raised; the error is caught, the loop
\* is left and the accumulator is returned
PageThrows ==
  /\ pagePc = "await"
  /\ fetchFunction[currentPage].shape = "throw"
  /\ pagePc' = "done"
  /\ pageResult' = allItems
  /\ settled' = settled + 1
  /\ UNCHANGED <<fetchFunction, maxPages, allItems, currentPage, hasMore,
                 calls, pageRaised>>
  /\ UNCHANGED listVars
  /\ UNCHANGED <<mutVars, attVars, toolVars>>

\* no call of fetchAllPaginated is under way
PageIdle ==
  /\ fetchFunction = [p \in 1..MaxM |-> [shape |-> "plain", len |-> 0, next |-> FALSE]]
  /\ maxPages = 1
  /\ allItems = <<>>
  /\ currentPage = 1
  /\ hasMore = TRUE
  /\ pagePc = "idle"
  /\ calls = <<>>
  /\ settled = 0
  /\ pageResult = NoResult
  /\ pageRaised = FALSE
  /\ listCall = DefaultCall
  /\ listPc = "idle"
  /\ listUser = 0
  /\ sent = <<>>
  /\ listOutcome = None

PageInit ==
  /\ fetchFunction \in [1..MaxM -> Response]
  /\ maxPages \in 1..MaxM
  /\ allItems = <<>>
  /\ currentPage = 1
  /\ hasMore = TRUE
  /\ pagePc = "start"
  /\ calls = <<>>
  /\ settled = 0
  /\ pageResult = NoResult
  /\ pageRaised = FALSE
  /\ listCall = DefaultCall
  /\ listPc = "idle"
  /\ listUser = 0
  /\ sent = <<>>
  /\ listOutcome = None

PageNext == Enter \/ PageReturns \/ PageThrows

\* ---- the list operations (listProjects 29-51, listUserStories 92-111,
\* listIssues 229-248, listMilestones 396-415, getIssuesByMilestone 492-512,
\* listEpics 1033-1053, listWikiPages 1168-1188)

\* the error each list operation raises from its catch
FailedToList(op) ==
  CASE op = "listProjects"         -> "ERROR_MESSAGES.FAILED_TO_LIST_PROJECTS"
    [] op = "listUserStories"      -> "ERROR_MESSAGES.FAILED_TO_LIST_USER_STORIES"
    [] op = "listIssues"           -> "ERROR_MESSAGES.FAILED_TO_LIST_ISSUES"
    [] op = "listMilestones"       -> "ERROR_MESSAGES.FAILED_TO_LIST_MILESTONES"
    [] op = "getIssuesByMilestone" -> "Failed to get issues by milestone from Taiga"
    [] op = "listEpics"            -> "Failed to list epics from Taiga"
    [] op = "listWikiPages"        -> "ERROR_MESSAGES.FAILED_TO_LIST_WIKI"

\* what the caller of a list operation gets
ListResult(items) == [ok |-> TRUE, items |-> items, msg |-> ""]
ListError(msg) == [ok |-> FALSE, items |-> <<>>, msg |-> msg]

\* the list operation is called and awaits its authenticated client
ListOperation ==
  /\ listPc = "start"
  /\ listPc' = "auth"
  /\ UNCHANGED <<fetchFunction, maxPages, allItems, currentPage, hasMore, pagePc,
                 calls, settled, pageResult, pageRaised>>
  /\ UNCHANGED <<listCall, listUser, sent, listOutcome>>
  /\ UNCHANGED <<mutVars, attVars, toolVars>>

\* the authenticated client cannot be had: the catch of the operation
\* raises its error
ListClientFails ==
  /\ listPc = "auth"
  /\ listPc' = "done"
  /\ listOutcome' = ListError(FailedToList(listCall.op))
  /\ UNCHANGED <<fetchFunction, maxPages, allItems, currentPage, hasMore, pagePc,
                 calls, settled, pageResult, pageRaised>>
  /\ UNCHANGED <<listCall, listUser, sent>>
  /\ UNCHANGED <<mutVars, attVars, toolVars>>

\* the client is there: listProjects asks for the current user first
\* (33-34), the other operations call fetchAllPaginated(fetchPage)
ListClientReady ==
  /\ listPc = "auth"
  /\ IF listCall.op = "listProjects"
     THEN listPc' = "user" /\ pagePc' = pagePc
     ELSE listPc' = "paging" /\ pagePc' = "start"
  /\ UNCHANGED <<fetchFunction, maxPages, allItems, currentPage, hasMore,
                 calls, settled, pageResult, pageRaised>>
  /\ UNCHANGED <<listCall, listUser, sent, listOutcome>>
  /\ UNCHANGED <<mutVars, attVars, toolVars>>

\* getCurrentUser returned the user (172-176): listProjects calls
\* fetchAllPaginated(fetchPage)
CurrentUserReturns(id) ==
  /\ listPc = "user"
  /\ listUser' = id
  /\ listPc' = "paging"
  /\ pagePc' = "start"
  /\ UNCHANGED <<fetchFunction, maxPages, allItems, currentPage, hasMore,
                 calls, settled, pageResult, pageRaised>>
  /\ UNCHANGED <<listCall, sent, listOutcome>>
  /\ UNCHANGED <<mutVars, attVars, toolVars>>

\* getCurrentUser raised (177-180): the catch of listProjects raises its error
CurrentUserFails ==
  /\ listPc = "user"
  /\ listPc' = "done"
  /\ listOutcome' = ListError(FailedToList(listCall.op))
  /\ UNCHANGED <<fetchFunction, maxPages, allItems, currentPage, hasMore, pagePc,
                 calls, settled, pageResult, pageRaised>>
  /\ UNCHANGED <<listCall, listUser, sent>>
  /\ UNCHANGED <<mutVars, attVars, toolVars>>

\* fetchAllPaginated is back: the operation returns what it returned, and
\* its catch raises the operation's error for an error it let out
ListReturns ==
  /\ listPc = "paging"
  /\ pagePc = "done"
  /\ listPc' = "done"
  /\ listOutcome' = IF pageRaised THEN ListError(FailedToList(listCall.op))
                    ELSE ListResult(pageResult)
  /\ UNCHANGED <<fetchFunction, maxPages, allItems, currentPage, hasMore, pagePc,
                 calls, settled, pageResult, pageRaised>>
  /\ UNCHANGED <<listCall, listUser, sent>>
  /\ UNCHANGED <<mutVars, attVars, toolVars>>

\* a list operation, or fetchAllPaginated itself with a starting parameter
\* set, is called; the remote list has at most MaxM pages of at most one
\* item, and maxPages is left at its default
ListInit ==
  /\ fetchFunction \in [1..MaxM -> Response]
  /\ \A p \in 1..MaxM : fetchFunction[p].len <= 1
  /\ fetchFunction[MaxM].shape = "throw" \/ Breaks(fetchFunction[MaxM])
  /\ maxPages = DefaultMaxPages
  /\ listCall \in ListCalls
  /\ IF listCall.op \in ListOps
     THEN listPc = "start" /\ pagePc = "idle"
     ELSE listPc = "idle" /\ pagePc = "start"
  /\ allItems = <<>>
  /\ currentPage = 1
  /\ hasMore = TRUE
  /\ calls = <<>>
  /\ settled = 0
  /\ pageResult = NoResult
  /\ pageRaised = FALSE
  /\ listUser = 0
  /\ sent = <<>>
  /\ listOutcome = None

ListNext ==
  \/ ListOperation
  \/ ListClientFails
  \/ ListClientReady
  \/ \E id \in {5} : CurrentUserReturns(id)
  \/ CurrentUserFails
  \/ Enter
  \/ PageReturns
  \/ PageThrows
  \/ ListReturns

(***************************************************************************)
(* Tool handlers                                                           *)
(***************************************************************************)

\* the handlers modelled: the two sprint tools that read twice at once, the
\* tool that updates an epic, the tool that updates a wiki page, and the
\* tool that shows a user story
Tools ==
  {"getMilestoneStats", "getIssuesByMilestone", "updateEpic", "updateWikiPage",
   "getUserStory"}

\* authenticated: what taigaService.isAuthenticated() gives; slug: the wiki
\* page is named by its slug and not by its number
ToolCalls ==
  [tool : {"getMilestoneStats", "getIssuesByMilestone", "getUserStory"},
   authenticated : {TRUE}, slug : {FALSE}]
    \cup [tool : {"updateEpic"}, authenticated : BOOLEAN, slug : {FALSE}]
    \cup [tool : {"updateWikiPage"}, authenticated : BOOLEAN, slug : BOOLEAN]

NoToolCall == [tool |-> "none", authenticated |-> FALSE, slug |-> FALSE]

\* the handlers that begin by asking taigaService.isAuthenticated()
ChecksAuthentication(c) == c.tool \in {"updateEpic", "updateWikiPage"}

\* (mutant) the calls of a stage made one after the other: the next is made
\* when the one before it has returned
StagesOfSequential(c) ==
  CASE c.tool = "getMilestoneStats" ->
         << <<"getMilestone">>, <<"getMilestoneStats">> >>
    [] c.tool = "getIssuesByMilestone" ->
         << <<"resolveProjectId">>, <<"getMilestone">>, <<"getIssuesByMilestone">> >>
    [] c.tool = "updateEpic" ->
         << <<"updateEpic">> >>
    [] c.tool = "updateWikiPage" ->
         IF c.slug
         THEN << <<"resolveProjectId">>, <<"getWikiPageBySlug">>, <<"updateWikiPage">> >>
         ELSE << <<"resolveProjectId">>, <<"updateWikiPage">> >>
    [] OTHER ->
         << <<"getUserStory">> >>

\* the service calls a handler makes, stage by stage: the calls of one stage
\* are made together and awaited together, a stage begins when the one
\* before it has been awaited
StagesOf(c) ==
  CASE c.tool = "getMilestoneStats" ->
         << <<"getMilestone", "getMilestoneStats">> >>
    [] c.tool = "getIssuesByMilestone" ->
         << <<"resolveProjectId">>, <<"getMilestone", "getIssuesByMilestone">> >>
    [] c.tool = "updateEpic" ->
         << <<"updateEpic">> >>
    [] c.tool = "updateWikiPage" ->
         IF c.slug
         THEN << <<"resolveProjectId">>, <<"getWikiPageBySlug">>, <<"updateWikiPage">> >>
         ELSE << <<"resolveProjectId">>, <<"updateWikiPage">> >>
    [] OTHER ->
         << <<"getUserStory">> >>

\* the message of the error a service call raises
ServiceError(call) ==
  CASE call = "getMilestone"         -> <<"ERROR_MESSAGES.FAILED_TO_GET_MILESTONE">>
    [] call = "getMilestoneStats"    -> <<"ERROR_MESSAGES.FAILED_TO_GET_MILESTONE_STATS">>
    [] call = "getIssuesByMilestone" -> <<"Failed to get issues by milestone from Taiga">>
    [] call = "updateEpic"           -> <<"Failed to update epic in Taiga">>
    [] call = "getWikiPageBySlug"    -> <<"ERROR_MESSAGES.FAILED_TO_GET_WIKI">>
    [] call = "updateWikiPage"       -> <<"ERROR_MESSAGES.FAILED_TO_UPDATE_WIKI">>
    [] call = "getUserStory"         -> <<"Failed to get user story details from Taiga">>
    [] OTHER                         -> <<"Project not found">>

\* what a service call can return
ServiceValues(call) ==
  CASE call = "getMilestone"         -> {<<"Sprint 1">>, <<"Sprint 2">>}
    [] call = "getMilestoneStats"    -> {<<"0/2">>, <<"2/2">>}
    [] call = "getIssuesByMilestone" -> {<<>>, <<"issue 7">>, <<"issue 7", "issue 9">>}
    [] call = "resolveProjectId"     -> {<<"project 3">>, <<"null">>}
    [] OTHER                         -> {<<call>>}

createErrorResponse(text) == [isError |-> TRUE, text |-> text]

createSuccessResponse(text) == [isError |-> FALSE, text |-> text]

\* the response of a handler that has not returned
NoResponse == [isError |-> FALSE, text |-> <<"pending">>]

\* the indexes in reads of the calls of the stage under way: the last ones
StageIndexes(rs, n) == [k \in 1..n |-> Len(rs) - n + k]

\* the number of calls of the stage under way, given the calls made so far
RECURSIVE StageSizeAt(_, _, _)
StageSizeAt(stages, made, k) ==
  IF made <= Len(stages[k]) THEN Len(stages[k])
  ELSE StageSizeAt(stages, made - Len(stages[k]), k + 1)

\* the number of the stage under way
RECURSIVE StageAt(_, _, _)
StageAt(stages, made, k) ==
  IF made <= Len(stages[k]) THEN k
  ELSE StageAt(stages, made - Len(stages[k]), k + 1)

\* (mutant) Promise.all rejecting with the rejection that came last
PromiseAllLastRejection(rs, ord, idx) ==
  LET Among(i) == (\E k \in 1..Len(idx) : idx[k] = i) /\ rs[i].state = "rejected"
      rejected == SelectSeq(ord, Among)
  IN IF \A k \in 1..Len(idx) : rs[idx[k]].state # "pending"
     THEN IF rejected # <<>>
          THEN [state |-> "rejected", value |-> rs[rejected[Len(rejected)]].value]
          ELSE [state |-> "fulfilled", value |-> <<>>]
     ELSE [state |-> "pending", value |-> <<>>]

\* Promise.all over the calls at the indexes idx, which settled in the
\* order ord: rejected with the first rejection, fulfilled when all are
\* fulfilled, pending otherwise; an await of one call is the same with one index
PromiseAll(rs, ord, idx) ==
  LET Among(i) == (\E k \in 1..Len(idx) : idx[k] = i) /\ rs[i].state = "rejected"
      rejected == SelectSeq(ord, Among)
  IN IF rejected # <<>>
     THEN [state |-> "rejected", value |-> rs[rejected[1]].value]
     ELSE IF \A k \in 1..Len(idx) : rs[idx[k]].state = "fulfilled"
          THEN [state |-> "fulfilled", value |-> <<>>]
          ELSE [state |-> "pending", value |-> <<>>]

\* what a fulfilled call returned
Returned(rs, call) == rs[CHOOSE i \in 1..Len(rs) : rs[i].call = call].value

\* the text the catch block of a handler answers with
CatchText(c, message) ==
  CASE c.tool = "getMilestoneStats"    -> <<"Failed to get sprint details: ">> \o message
    [] c.tool = "getIssuesByMilestone" -> <<"Failed to get issues by sprint: ">> \o message
    [] c.tool = "updateEpic"           -> <<"ERROR_MESSAGES.FAILED_TO_UPDATE_EPIC">>
    [] c.tool = "updateWikiPage"       -> message
    [] OTHER                           -> <<"Failed to get user story details: ">> \o message

\* (mutant) the catch block passes the error on
CatchRethrowing(c, message) == [response |-> NoResponse, raised |-> TRUE]

\* the catch block of a handler: it returns an error response
Catch(c, message) ==
  [response |-> createErrorResponse(CatchText(c, message)), raised |-> FALSE]

\* a handler returns before its next stage: no project was found
ReturnsEarly(c, rs) ==
  /\ c.tool = "updateWikiPage"
  /\ Len(rs) = 1
  /\ rs[1].value = <<"null">>

\* the response a handler builds from what its calls returned
Respond(c, rs) ==
  CASE c.tool = "getMilestoneStats" ->
         createSuccessResponse(<<"Sprint Details: ">> \o Returned(rs, "getMilestone")
                                 \o Returned(rs, "getMilestoneStats"))
    [] c.tool = "getIssuesByMilestone" ->
         IF Len(Returned(rs, "getIssuesByMilestone")) = 0
         THEN createErrorResponse(<<"No issues found in Sprint: ">>
                                    \o Returned(rs, "getMilestone"))
         ELSE createSuccessResponse(<<"Issues in Sprint: ">> \o Returned(rs, "getMilestone")
                                      \o Returned(rs, "getIssuesByMilestone"))
    [] c.tool = "updateEpic" ->
         createSuccessResponse(<<"SUCCESS_MESSAGES.EPIC_UPDATED">> \o Returned(rs, "updateEpic"))
    [] c.tool = "updateWikiPage" ->
         IF ReturnsEarly(c, rs)
         THEN createErrorResponse(<<"ERROR_MESSAGES.PROJECT_NOT_FOUND">>)
         ELSE createSuccessResponse(<<"SUCCESS_MESSAGES.WIKI_PAGE_UPDATED">>
                                      \o Returned(rs, "updateWikiPage")
                                      \o Returned(rs, "resolveProjectId"))
    [] OTHER ->
         createSuccessResponse(<<"User Story Details: ">> \o Returned(rs, "getUserStory"))

\* the calls of a stage as they are when just made
Issued(names) == [k \in 1..Len(names) |-> [call |-> names[k], state |-> "pending",
                                            value |-> <<"pending">>]]

\* the handler is invoked: a handler that checks the authentication and finds
\* none answers at once; otherwise the calls of the first stage are made
ToolInvoke ==
  /\ toolPc = "start"
  /\ IF ChecksAuthentication(toolCall) /\ ~toolCall.authenticated
     THEN /\ toolResponse' = createErrorResponse(<<"ERROR_MESSAGES.AUTHENTICATION_FAILED">>)
          /\ toolPc' = "done"
          /\ UNCHANGED reads
     ELSE /\ reads' = Issued(StagesOf(toolCall)[1])
          /\ toolPc' = "awaiting"
          /\ UNCHANGED toolResponse
  /\ UNCHANGED <<toolCall, order, toolRaised>>
  /\ UNCHANGED <<pageVars, mutVars, attVars>>

\* the handler after the call i has settled: rs and ord are the calls and
\* their order after it.  While the awaited stage is pending nothing
\* happens; a rejection is caught and answered; when the stage is
\* fulfilled the handler makes the calls of the next stage, or answers.
Continue(rs, ord) ==
  LET stages  == StagesOf(toolCall)
      size    == StageSizeAt(stages, Len(rs), 1)
      stage   == StageAt(stages, Len(rs), 1)
      awaited == PromiseAll(rs, ord, StageIndexes(rs, size))
  IN
  /\ order' = ord
  /\ IF toolPc # "awaiting" \/ awaited.state = "pending"
     THEN /\ reads' = rs
          /\ UNCHANGED <<toolPc, toolResponse, toolRaised>>
     ELSE IF awaited.state = "rejected"
     THEN /\ reads' = rs
          /\ toolPc' = "done"
          /\ toolResponse' = Catch(toolCall, awaited.value).response
          /\ toolRaised' = Catch(toolCall, awaited.value).raised
     ELSE IF stage < Len(stages) /\ ~ReturnsEarly(toolCall, rs)
     THEN /\ reads' = rs \o Issued(stages[stage + 1])
          /\ UNCHANGED <<toolPc, toolResponse, toolRaised>>
     ELSE /\ reads' = rs
          /\ toolPc' = "done"
          /\ toolResponse' = Respond(toolCall, rs)
          /\ UNCHANGED toolRaised
  /\ UNCHANGED toolCall
  /\ UNCHANGED <<pageVars, mutVars, attVars>>

\* a service call returns
ServiceReturns(i, value) ==
  /\ toolPc \in {"awaiting", "done"}
  /\ i \in 1..Len(reads)
  /\ reads[i].state = "pending"
  /\ value \in ServiceValues(reads[i].call)
  /\ Continue([reads EXCEPT ![i] = [@ EXCEPT !.state = "fulfilled", !.value = value]],
              Append(order, i))

\* a service call raises its error
ServiceFails(i) ==
  /\ toolPc \in {"awaiting", "done"}
  /\ i \in 1..Len(reads)
  /\ reads[i].state = "pending"
  /\ Continue([reads EXCEPT ![i] = [@ EXCEPT !.state = "rejected",
                                              !.value = ServiceError(reads[i].call)]],
              Append(order, i))

\* everything a service call can return
AllServiceValues ==
  UNION {ServiceValues(call) : call \in {"getMilestone", "getMilestoneStats",
           "getIssuesByMilestone", "resolveProjectId", "updateEpic",
           "getWikiPageBySlug", "updateWikiPage", "getUserStory"}}

\* no tool is invoked
ToolIdle ==
  /\ toolCall = NoToolCall
  /\ toolPc = "idle"
  /\ reads = <<>>
  /\ order = <<>>
  /\ toolResponse = NoResponse
  /\ toolRaised = FALSE

ToolInit ==
  /\ toolCall \in ToolCalls
  /\ toolPc = "start"
  /\ reads = <<>>
  /\ order = <<>>
  /\ toolResponse = NoResponse
  /\ toolRaised = FALSE

ToolNext ==
  \/ ToolInvoke
  \/ \E i \in DOMAIN reads, value \in AllServiceValues : ServiceReturns(i, value)
  \/ \E i \in DOMAIN reads : ServiceFails(i)

(***************************************************************************)
(* The specifications: one per part, the other parts idle                  *)
(***************************************************************************)
PaginationInit == PageInit /\ MutIdle /\ AttIdle /\ ToolIdle
PaginationSpec == PaginationInit /\ [][PageNext]_vars

\* The pagination engine when every call of fetchFunction returns or raises:
\* an enabled step of the engine (the start of the call, the continuation
\* after an awaited promise has settled) is eventually taken.
\* The loop tells an empty page from one with items and nothing more about
\* its length: pages of at most one item are taken here.
PaginationFairInit ==
  /\ PaginationInit
  /\ \A p \in 1..MaxM : fetchFunction[p].len <= 1

PaginationFairSpec ==
  PaginationFairInit /\ [][PageNext]_vars /\ WF_vars(PageNext)

MutationInit == MutIdle /\ PageIdle /\ AttIdle /\ ToolIdle
MutationSpec == MutationInit /\ [][MutNext]_vars

AttachmentInit == AttInit /\ PageIdle /\ MutIdle /\ ToolIdle
AttachmentSpec == AttachmentInit /\ [][AttNext]_vars

ListingInit == ListInit /\ MutIdle /\ AttIdle /\ ToolIdle
ListingSpec == ListingInit /\ [][ListNext]_vars

\* A tool handler and the service calls it makes, the service's own parts idle.
ToolsInit == ToolInit /\ PageIdle /\ MutIdle /\ AttIdle
ToolsSpec == ToolsInit /\ [][ToolNext]_vars

\* The attachment operations one after the other: an upload, and the calls
\* its caller makes about the attachment it created.
AttachmentFamilyInit == FamilyInit /\ PageIdle /\ MutIdle /\ ToolIdle
AttachmentFamilySpec == AttachmentFamilyInit /\ [][FamilyNext]_vars

\* A download on its own, with every step that can be taken eventually taken:
\* each request returns or fails, and a stream that can move does move.
DownloadFairInit ==
  /\ AttachmentInit
  /\ attCall \in DownloadCalls

DownloadNext ==
  \/ DownloadAttachment
  \/ \E m \in Metadatas : MetadataReturns(m)
  \/ DownloadRequestFails
  \/ \E chunks \in 0..MaxChunks : ContentReturns(chunks)
  \/ ChunkWritten
  \/ WriterFinishes
  \/ WriterErrors
  \/ SourceErrors

DownloadFairSpec ==
  DownloadFairInit /\ [][DownloadNext]_vars /\ WF_vars(DownloadNext)

\* One caller, one core operation at a time: a version-guarded update or a
\* comment (while other actors write), or an upload of base64 data.
TranslationInit ==
  \/ MutationInit
  \/ /\ AttachmentInit
     /\ attCall.op = "uploadAttachment"
     /\ Len(attCall.fileData.text) <= 1

TranslationNext ==
  \/ \E c \in Invocations : attPc = "idle" /\ Invoke(1, c)
  \/ \E form \in {"number", "missing", "text"} : ReadReturns(1, form)
  \/ \E status \in ReadFailures : ReadFails(1, status)
  \/ WriteArrives(1)
  \/ \E e \in WriteFailures : WriteFails(1, e)
  \/ \E r \in Resources : OtherActorWrites(r)
  \/ UploadAttachment
  \/ Validated
  \/ AuthFails
  \/ \E data \in ItemDatas : LookupReturns(data)
  \/ LookupFails
  \/ PostReturns
  \/ \E status \in PostFailures : PostFails(status)

TranslationSpec == TranslationInit /\ [][TranslationNext]_vars

(***************************************************************************)
(* Claims about the pagination engine                                      *)
(***************************************************************************)

\* The concatenation of the items of pages 1..k of fetchFunction, in page
\* order and then within-page order.
RECURSIVE AllPages(_)
AllPages(k) ==
  IF k = 0 THEN <<>>
  ELSE AllPages(k - 1) \o PageItems(k, fetchFunction[k].len)

\* fetchFunction serves a list split across exactly k envelope pages: pages
\* 1..k are envelopes and every one of them but page k carries "next".
PagedList(k) ==
  \A p \in 1..k : /\ fetchFunction[p].shape = "envelope"
                  /\ fetchFunction[p].next <=> (p < k)

\* C1 as stated: whenever fetchFunction serves k envelope pages with "next"
\* on all but the last, the call returns all the items of the k pages in
\* order after exactly k calls.
C1_AsStated ==
  \A k \in 1..MaxM :
    (pagePc = "done" /\ PagedList(k))
      => (pageResult = AllPages(k) /\ Len(calls) = k)

\* C1 amended: the same, provided the k pages fit into maxPages and every
\* page before the last holds at least one item.
C1_PagedListComplete ==
  \A k \in 1..MaxM :
    (/\ pagePc = "done"
     /\ PagedList(k)
     /\ k <= maxPages
     /\ \A p \in 1..(k - 1) : fetchFunction[p].len > 0)
      => (pageResult = AllPages(k) /\ calls = [i \in 1..k |-> i])

\* a list of 5 items paged 2+2+1 has been returned after 3 calls
C1_Witness ==
  /\ pagePc = "done"
  /\ PagedList(3)
  /\ fetchFunction[1].len = 2 /\ fetchFunction[2].len = 2 /\ fetchFunction[3].len = 1
  /\ Len(calls) = 3
  /\ pageResult = <<<<1, 1>>, <<1, 2>>, <<2, 1>>, <<2, 2>>, <<3, 1>>>>

\* C4: when call j (j > 1) of fetchFunction raises, the call returns the
\* items of calls 1..j-1 in order, has made no call after call j, and
\* raises nothing to its caller.
C4_PartialResultOnError ==
  \A j \in 2..MaxM :
    (/\ pagePc = "done"
     /\ Len(calls) >= j
     /\ fetchFunction[calls[j]].shape = "throw")
      => (/\ ~pageRaised
          /\ Len(calls) = j
          /\ pageResult = AllPages(j - 1))

\* the third call raised after two non-empty pages
C4_Witness ==
  /\ pagePc = "done"
  /\ Len(calls) = 3
  /\ fetchFunction[3].shape = "throw"
  /\ Len(pageResult) = 4

\* fetchFunction answers every page up to maxPages with a non-empty
\* envelope carrying "next"
Runaway ==
  \A p \in 1..maxPages : /\ fetchFunction[p].shape = "envelope"
                         /\ fetchFunction[p].next
                         /\ fetchFunction[p].len > 0

\* C5: against a runaway endpoint the call makes exactly maxPages calls and
\* returns, as an ordinary result, exactly the items of those pages.
C5_MaxPagesBound ==
  (pagePc = "done" /\ Runaway)
    => (/\ calls = [i \in 1..maxPages |-> i]
        /\ pageResult = AllPages(maxPages)
        /\ ~pageRaised)

\* a runaway endpoint was cut off after 2 pages of one item each
C5_Witness ==
  /\ pagePc = "done"
  /\ Runaway
  /\ maxPages = 2
  /\ fetchFunction[1].len = 1 /\ fetchFunction[2].len = 1
  /\ Len(pageResult) = 2
  /\ fetchFunction[2].next

\* C6: when the response body is a bare array (empty or not), the call
\* returns that array's items in order after exactly one call.
C6_BareArraySinglePage ==
  (pagePc = "done" /\ fetchFunction[1].shape = "array")
    => (/\ pageResult = PageItems(1, fetchFunction[1].len)
        /\ calls = <<1>>)

\* a bare array of two items was returned although more pages were allowed
C6_Witness ==
  /\ pagePc = "done"
  /\ fetchFunction[1].shape = "array"
  /\ fetchFunction[1].len = 2
  /\ maxPages > 1
  /\ pageResult = <<<<1, 1>>, <<1, 2>>>>

(***************************************************************************)
(* Claims about the version-guarded updates                                *)
(***************************************************************************)

\* the field changes the caller of an operation supplied
ChangesOf(c) ==
  IF c.op = "addComment"
  THEN [comment |-> c.data.comment]
  ELSE [k \in DOMAIN c.data \ {"version"} |-> c.data[k]]

\* body without its version field
SansVersion(body) == [k \in DOMAIN body \ {"version"} |-> body[k]]

\* slot s has sent its write request
HasWritten(s) == inv[s].pc \in {"writing", "done"} /\ inv[s].writes = 1

\* C2: the body of every write is the caller's field changes plus a version
\* field, and that version is the one this invocation's own read of the
\* written resource returned (where the read returned a numeric version),
\* not a version the caller supplied or one another invocation read.
C2_VersionFromOwnRead ==
  \A s \in Slots :
    HasWritten(s) =>
      /\ inv[s].wroteTo = inv[s].readFrom
      /\ SansVersion(inv[s].body) = ChangesOf(inv[s].call)
      /\ TypeOf(inv[s].readVersion) = "number" =>
           /\ "version" \in DOMAIN inv[s].body
           /\ inv[s].body.version = inv[s].readVersion
           /\ inv[s].readVersion = Num(inv[s].atRead)

\* an issue that other actors moved to version 3 is updated with
\* {status: 2, version: 9}: the body is {status: 2, version: 3}, while an
\* earlier invocation had read version 1
C2_Witness ==
  /\ HasWritten(1) /\ HasWritten(2)
  /\ inv[1].call.op = "updateIssue" /\ inv[1].readVersion = Num(1)
  /\ inv[2].call.op = "updateIssue"
  /\ inv[2].call.data = [status |-> Num(2), version |-> Num(9)]
  /\ inv[2].body = [status |-> Num(2), version |-> Num(3)]

\* C3: an invocation reads once and writes at most once; when the resource
\* was written by someone else between its read and its write, its write is
\* refused and its caller gets an error; so a write that was accepted found
\* the resource at the version its invocation had read.
C3_NoLostUpdate ==
  \A s \in Slots :
    /\ inv[s].reads <= 1
    /\ inv[s].writes <= 1
    /\ inv[s].pc = "done" =>
         /\ inv[s].outcome.ok => (inv[s].writes = 1 /\ ~inv[s].intervened)
         /\ (inv[s].writes = 1 /\ inv[s].intervened) => ~inv[s].outcome.ok

\* two invocations read the same issue at the same version; the write of the
\* first was accepted, the write of the second was refused as a conflict
C3_Witness ==
  /\ inv[1].pc = "done" /\ inv[2].pc = "done"
  /\ inv[1].writes = 1 /\ inv[2].writes = 1
  /\ inv[1].readFrom = inv[2].readFrom
  /\ inv[1].readVersion = Num(1) /\ inv[2].readVersion = Num(1)
  /\ inv[1].outcome.ok
  /\ inv[2].intervened /\ ~inv[2].outcome.ok
  /\ inv[2].call.op = "addComment"
  /\ remoteVersion[inv[1].readFrom] = 2

\* slot s has sent its write after a read that returned no numeric version
WroteWithoutNumericVersion(s) ==
  HasWritten(s) /\ TypeOf(inv[s].readVersion) # "number"

\* C7 as stated: in every version-guarded update, a read that returned no
\* version field or a non-numeric one is followed by a write carrying
\* version 1.
C7_AsStated ==
  \A s \in Slots :
    (inv[s].readVersion # None /\ TypeOf(inv[s].readVersion) # "number")
      => /\ inv[s].writes = 1
         /\ "version" \in DOMAIN inv[s].body
         /\ inv[s].body.version = Num(1)

\* C7 amended: after a read that returned no version field or a non-numeric
\* one the write is still issued; in comment creation it carries version 1,
\* in the other updates it carries the read value as it is: no version field
\* when it was missing, the non-numeric value otherwise.
C7_DefaultVersionInAddComment ==
  \A s \in Slots :
    (inv[s].readVersion # None /\ TypeOf(inv[s].readVersion) # "number")
      => /\ inv[s].writes = 1
         /\ IF inv[s].call.op = "addComment"
            THEN /\ "version" \in DOMAIN inv[s].body
                 /\ inv[s].body.version = Num(1)
            ELSE IF inv[s].readVersion = Undefined
                 THEN "version" \notin DOMAIN inv[s].body
                 ELSE /\ "version" \in DOMAIN inv[s].body
                      /\ inv[s].body.version = inv[s].readVersion

\* a comment was written with version 1 after a read without a version
\* field, and a wiki page update was written without any version
C7_Witness ==
  /\ WroteWithoutNumericVersion(1) /\ WroteWithoutNumericVersion(2)
  /\ inv[1].call.op = "addComment" /\ inv[1].readVersion = Undefined
  /\ inv[1].body = [comment |-> Str("hi"), version |-> Num(1)]
  /\ inv[2].call.op = "updateWikiPage" /\ inv[2].readVersion = Undefined
  /\ inv[2].body = [status |-> Num(2)]

(***************************************************************************)
(* Claims about the attachment pipeline                                    *)
(***************************************************************************)

\* everything after the first comma of a text, the whole text without comma
AfterFirstComma(str) ==
  IF ~Includes(str, ",") THEN str
  ELSE LET i == CHOOSE j \in DOMAIN str :
                  str[j] = "," /\ \A k \in 1..(j - 1) : str[k] # ","
       IN SubSeq(str, i + 1, Len(str))

\* uploadAttachment has decoded the fileData it was called with
Decoded ==
  /\ attCall.op = "uploadAttachment"
  /\ attPc \in {"lookup", "posting"} \/ (attPc = "done" /\ requests # <<>>)

\* C8: the bytes uploadAttachment decodes are those of everything after the
\* first comma of fileData (the payload of a data URI), and of the whole
\* fileData when it has no comma.
C8_DecodesPayloadAlone ==
  Decoded =>
    fileBuffer = BufferFromBase64(AfterFirstComma(attCall.fileData.text))

\* the candidate locations of a relative path, in the order the claim gives:
\* working directory, home directory, home/Desktop, home/Downloads
Candidates ==
  << cwd \o attCall.filePath,
     HomeDir \o attCall.filePath,
     HomeDir \o <<Desktop>> \o attCall.filePath,
     HomeDir \o <<Downloads>> \o attCall.filePath >>

\* uploadAttachmentFromPath has resolved a relative path
ResolvedRelative ==
  /\ attCall.op = "uploadAttachmentFromPath"
  /\ attPc # "start"
  /\ attCall.filePath # <<>>
  /\ ~IsAbsolute(attCall.filePath)

\* C9: a relative path resolves to the first candidate that exists, in the
\* order working directory, home, home/Desktop, home/Downloads; that file,
\* and no other, is read, and its bytes are the ones put into the upload.
C9_FirstExistingCandidate ==
  ResolvedRelative =>
    \A i \in 1..4 :
      (Candidates[i] \in existing /\ \A j \in 1..(i - 1) : Candidates[j] \notin existing)
        => /\ absolutePath = Candidates[i]
           /\ filesRead = <<Candidates[i]>>
           /\ upload.fileName = Basename(Candidates[i])
           /\ requests # <<>> => fileBuffer = ContentOf(Candidates[i])

\* the file exists under home/Desktop and home/Downloads only: the Desktop
\* file is the one read
C9_Witness ==
  /\ ResolvedRelative
  /\ existing = {HomeDir \o <<Desktop, FileName>>, HomeDir \o <<Downloads, FileName>>}
  /\ absolutePath = HomeDir \o <<Desktop, FileName>>
  /\ filesRead = <<HomeDir \o <<Desktop, FileName>>>>
  /\ attPc = "done" /\ attOutcome.ok

\* uploadAttachmentFromPath was given a path, and no file exists at any
\* location it probes for it
NowhereFound ==
  /\ attCall.op = "uploadAttachmentFromPath"
  /\ attCall.filePath # <<>>
  /\ IF IsAbsolute(attCall.filePath)
     THEN attCall.filePath \notin existing
     ELSE \A i \in 1..4 : Candidates[i] \notin existing

\* C10: when the file is at none of the probed locations, the call ends in
\* an error whose message lists the probed paths (the given path alone when
\* it is absolute, the four candidates when it is relative), no file is
\* read and no request is sent.
C10_NotFoundListsProbedPaths ==
  (NowhereFound /\ attPc # "start") =>
    /\ attPc = "done"
    /\ ~attOutcome.ok
    /\ searched = IF IsAbsolute(attCall.filePath) THEN <<attCall.filePath>> ELSE Candidates
    /\ SubSeq(attOutcome.msg, 3, Len(attOutcome.msg)) = searched
    /\ filesRead = <<>>
    /\ requests = <<>>

\* a relative path was found nowhere although the file exists elsewhere
C10_Witness ==
  /\ NowhereFound /\ attPc = "done"
  /\ ~IsAbsolute(attCall.filePath)
  /\ existing = {TmpDir \o <<FileName>>}
  /\ Len(attOutcome.msg) = 6

\* the extension of a file name, compared without regard to case: the text
\* after its last dot in lower case (the whole name when it has no dot)
ExtensionOf(name) ==
  LET lower == ToLowerCase(name)
      dots == {i \in DOMAIN lower : lower[i] = "."}
  IN IF dots = {} THEN lower
     ELSE SubSeq(lower, (CHOOSE i \in dots : \A j \in dots : j <= i) + 1, Len(lower))

\* the entry of the extension-to-MIME table for a name, the generic binary
\* type when the table has no entry for its extension
TableLookup(name) ==
  IF ExtensionOf(name) \in MimeKeys
  THEN mimeTypes[ExtensionOf(name)]
  ELSE Str("application/octet-stream")

\* C11: the inferred content type is the table's entry for the extension of
\* the file name, compared without regard to case, and the generic binary
\* type application/octet-stream for every name whose extension is not an
\* entry of the table; both for a direct call of detectMimeType and for the
\* type uploadAttachmentFromPath infers from the name of the file it read.
C11_ExtensionLookup ==
  /\ (attCall.op = "detectMimeType" /\ attPc = "done")
       => attOutcome.msg = TableLookup(attCall.fileName)
  /\ (attCall.op = "uploadAttachmentFromPath" /\ filesRead # <<>>)
       => upload.mimeType = TableLookup(upload.fileName)

\* C12: when the lookup of the owning item fails, the upload request is
\* still sent, and sent without a project field; the call then ends as the
\* upload request ends: with its response when it succeeds, with the error
\* of the failed upload request otherwise.
C12_LookupFailureIgnored ==
  itemData = LookupError =>
    /\ Len(requests) = 2
    /\ requests[1][1] = "GET" /\ requests[2][1] = "POST"
    /\ "project" \notin DOMAIN requests[2][3]
    /\ requests[2][3] = formData
    /\ attPc \in {"posting", "done"}
    /\ attPc = "done" =>
         \/ attOutcome = [ok |-> TRUE, msg |-> <<"response.data">>]
         \/ /\ ~attOutcome.ok
            /\ \E status \in PostFailures :
                 attOutcome.msg = Raised(UploadStatusError(status)).msg

\* the lookup failed and the upload went through all the same
C12_Witness ==
  /\ attCall.op = "uploadAttachment"
  /\ itemData = LookupError
  /\ attPc = "done"
  /\ attOutcome.ok
  /\ DOMAIN formData = {"object_id", "attached_file", "description"}

\* the call was given malformed input: fileData that is no string or is
\* empty, an empty file name, an empty file path
MalformedInput ==
  \/ /\ attCall.op = "uploadAttachment"
     /\ \/ ~attCall.fileData.isString
        \/ attCall.fileData.text = <<>>
        \/ attCall.fileName = <<>>
  \/ /\ attCall.op = "uploadAttachmentFromPath"
     /\ attCall.filePath = <<>>

Category(msg) ==
  CASE msg \in { "Failed to add comment to Taiga: Version parameter is invalid. The item may have been modified by another user.",
                 "Failed to add comment to Taiga: Bad request. Please check the comment data format." }
         -> "invalid data/version conflict"
    [] msg = "Authentication failed - please check credentials"
         -> "authentication failed"
    [] msg \in { "Failed to add comment to Taiga: Permission denied. Check your access rights.",
                 "Failed to add comment to Taiga: Permission denied accessing <itemType> #<itemId>" }
         -> "permission denied"
    [] msg \in { "Failed to add comment to Taiga: <itemType> #<itemId> not found.",
                 "Failed to add comment to Taiga: <itemType> #<itemId> not found",
                 "Upload endpoint not found - check item ID and type" }
         -> "not found"
    [] msg = "File too large for upload"
         -> "payload too large"
    [] OTHER -> "generic"

\* the category the claim gives for each status
StatusCategory(status) ==
  CASE status = 400 -> "invalid data/version conflict"
    [] status = 401 -> "authentication failed"
    [] status = 403 -> "permission denied"
    [] status = 404 -> "not found"
    [] status = 413 -> "payload too large"

TranslatedStatuses == {400, 401, 403, 404, 413}

\* C14 as stated: a transport error of status 400, 401, 403, 404 or 413 met
\* by a guarded update, a comment creation or an upload reaches the caller
\* as an error whose message is the one of that status.
C14_AsStated ==
  /\ \A s \in Slots :
       (inv[s].failed # None /\ inv[s].failed[3] \in TranslatedStatuses)
         => /\ ~inv[s].outcome.ok
            /\ Category(inv[s].outcome.msg) = StatusCategory(inv[s].failed[3])
  /\ (postError # None /\ postError[2] \in TranslatedStatuses)
       => /\ ~attOutcome.ok
          /\ Category(attOutcome.msg[Len(attOutcome.msg)]) = StatusCategory(postError[2])

\* the statuses each operation tells apart, by the request that failed
ToldApart(op, request) ==
  IF op = "addComment"
  THEN IF request = "write" THEN {400, 403, 404} ELSE {403, 404}
  ELSE IF op = "uploadAttachment" THEN {401, 404, 413}
  ELSE {}

\* C14 amended: every such transport error reaches the caller as an error;
\* its message is the one of the status for the statuses the operation
\* tells apart (comment creation: 400, 403, 404 of its write and 403, 404
\* of its read; upload: 401, 404, 413 of its upload request), and the
\* operation's general failure message for every other status and for
\* all statuses in the other guarded updates.
C14_StatusTranslation ==
  /\ \A s \in Slots :
       (inv[s].failed # None /\ inv[s].failed[3] \in TranslatedStatuses)
         => /\ ~inv[s].outcome.ok
            /\ Category(inv[s].outcome.msg) =
                 IF inv[s].failed[3] \in ToldApart(inv[s].call.op, inv[s].failed[2])
                 THEN StatusCategory(inv[s].failed[3])
                 ELSE "generic"
  /\ (postError # None /\ postError[2] \in TranslatedStatuses)
       => /\ ~attOutcome.ok
          /\ Category(attOutcome.msg[Len(attOutcome.msg)]) =
               IF postError[2] \in ToldApart("uploadAttachment", "write")
               THEN StatusCategory(postError[2])
               ELSE "generic"

\* an upload request was refused with 413 and the caller was told that the
\* file is too large
C14_Witness ==
  /\ postError = Num(413)
  /\ attPc = "done"
  /\ attOutcome = [ok |-> FALSE, msg |-> <<"File too large for upload">>]

\* slot s had its write refused for a stale version
StaleWriteRefused(s) ==
  inv[s].failed = TransportError("write", VersionConflict.status, VersionConflict.version)

\* the message of a version conflict
VersionConflictMessage ==
  "Failed to add comment to Taiga: Version parameter is invalid. The item may have been modified by another user."

\* the bad-request rejections that are no version conflict
OtherBadRequests == {e \in WriteFailures : e.status = 400}

\* C15 as stated: in every version-guarded update, the error of a write
\* refused for a stale version names the version conflict and differs from
\* the error of any other bad-request rejection.
C15_AsStated ==
  \A s \in Slots :
    StaleWriteRefused(s) =>
      /\ ~inv[s].outcome.ok
      /\ inv[s].outcome.msg = VersionConflictMessage
      /\ \A e \in OtherBadRequests : inv[s].outcome.msg # WriteErrorOf(inv[s].call, e)

\* C15 amended: the error of a write refused for a stale version names the
\* version conflict and differs from the error of any other bad-request
\* rejection in comment creation; in the other version-guarded updates it
\* is the operation's general failure message, the same as for any other
\* rejection.
C15_ConflictMessageInAddComment ==
  \A s \in Slots :
    StaleWriteRefused(s) =>
      /\ ~inv[s].outcome.ok
      /\ IF inv[s].call.op = "addComment"
         THEN /\ inv[s].outcome.msg = VersionConflictMessage
              /\ \A e \in OtherBadRequests :
                   inv[s].outcome.msg # WriteErrorOf(inv[s].call, e)
         ELSE \A e \in WriteFailures :
                inv[s].outcome.msg = WriteErrorOf(inv[s].call, e)

\* a comment on a task met a version the task had left behind, and its
\* caller was told of the version conflict
C15_Witness ==
  /\ StaleWriteRefused(1)
  /\ inv[1].call.op = "addComment"
  /\ inv[1].call.itemType = "task"
  /\ inv[1].readVersion = Num(1)
  /\ remoteVersion[<<"TASKS", 1>>] = 2
  /\ inv[1].outcome.msg = VersionConflictMessage

\* an upload operation has sent its upload request
Posted ==
  /\ attCall.op \in {"uploadAttachment", "uploadAttachmentFromPath"}
  /\ Len(requests) = 2

\* the lookup of the owning item succeeded and gave a project
ProjectFound == TypeOf(itemData) = "object" /\ TypeOf(itemData[2]) = "number"

\* C19: the body of the upload request holds object_id (the item
\* identifier) and attached_file (the decoded bytes under the file name)
\* always, description exactly when a non-empty description was given,
\* project exactly when the lookup of the owning item gave one, and nothing
\* else; so it is the same whatever the mimeType argument.
C19_MultipartFields ==
  Posted =>
    LET body == requests[2][3] IN
    /\ requests[2][1] = "POST"
    /\ DOMAIN body =
         {"object_id", "attached_file"}
           \cup (IF upload.description # "" THEN {"description"} ELSE {})
           \cup (IF ProjectFound THEN {"project"} ELSE {})
    /\ body.object_id = NumberToString(upload.itemId)
    /\ body.attached_file = [bytes |-> fileBuffer, name |-> upload.fileName]
    /\ upload.description # "" => body.description = upload.description
    /\ ProjectFound => body.project = NumberToString(itemData[2][2])

\* an upload with a description and a MIME type, for an item of project 7,
\* sent a body of exactly four fields
C19_Witness ==
  /\ Posted
  /\ attCall.op = "uploadAttachment"
  /\ upload.mimeType = Str("image/png")
  /\ requests[2][3] =
       [object_id |-> Str("1"),
        attached_file |-> [bytes |-> <<65>>, name |-> PngName],
        description |-> "notes",
        project |-> Str("7")]

(***************************************************************************)
(* Claims about downloadAttachment                                         *)
(***************************************************************************)

\* C16: downloadAttachment requests the metadata first and the content
\* second, the content from the url the metadata gave; its result resolves
\* only when the write stream has finished with all the content written;
\* and once the write stream has failed, the call is rejected and stays so.
C16_DownloadOrder ==
  attCall.op = "downloadAttachment" =>
    /\ (attPc = "done" /\ attOutcome.ok)
         => (writer.state = "finished" /\ writer.written = writer.total)
    /\ writer.state = "errored" => (attPc = "done" /\ ~attOutcome.ok)
    /\ Len(requests) <= 2
    /\ Len(requests) >= 1 => requests[1] = <<"GET", "ISSUE_ATTACHMENTS", attCall.attachmentId>>
    /\ Len(requests) = 1 => metadata = NoMetadata \/ attPc = "done"
    /\ Len(requests) = 2 => (metadata # NoMetadata
                             /\ requests[2] = <<"GET", metadata.url, "stream">>)
    /\ writer.state # "none" => Len(requests) = 2

\* a download of two chunks was written in full under the name the
\* metadata gave, and only then resolved
C16_Witness ==
  /\ attCall.op = "downloadAttachment"
  /\ attCall.downloadPath = Undefined
  /\ attPc = "done"
  /\ attOutcome.ok
  /\ writer = [path |-> Str(WorkDir \o <<FileName>>), written |-> 2, total |-> 2,
               state |-> "finished"]

(***************************************************************************)
(* Further claims about the pagination engine                              *)
(***************************************************************************)

\* the response to the page requested last continues the traversal
LastPageContinues ==
  /\ fetchFunction[currentPage].shape # "throw"
  /\ ~Breaks(fetchFunction[currentPage])

\* C17: at most one page request is in flight at any time, and a request
\* for a further page is issued only in the step that receives the response
\* to the page before it, when that response continues the traversal.
C17_OneRequestInFlight ==
  /\ [](Len(calls) - settled \in {0, 1})
  /\ [][(calls' # calls /\ calls # <<>>) =>
          /\ Len(calls) - settled = 1
          /\ settled' = Len(calls)
          /\ LastPageContinues
          /\ calls' = Append(calls, calls[Len(calls)] + 1)]_vars

\* the third page is requested, the first two have been answered
C17_Witness ==
  /\ pagePc = "await"
  /\ calls = <<1, 2, 3>>
  /\ settled = 2

\* C20: a page request follows an envelope page only if that page carried
\* "next" and its results were not empty; an envelope page with empty
\* results ends the traversal even when it carries "next", and one without
\* "next" ends it even when its results are not empty.
C20_EnvelopeContinuation ==
  \A i \in 1..Len(calls) :
    LET r == fetchFunction[calls[i]] IN
    r.shape = "envelope" =>
      /\ i < Len(calls) => (r.next /\ r.len > 0)
      /\ (settled >= i /\ (~r.next \/ r.len = 0))
           => (Len(calls) = i /\ pagePc = "done" /\ pageResult = allItems)

\* the second page was an empty envelope carrying "next", and the traversal
\* ended there although a third page was allowed
C20_Witness ==
  /\ pagePc = "done"
  /\ maxPages = 3
  /\ calls = <<1, 2>>
  /\ fetchFunction[1] = [shape |-> "envelope", len |-> 2, next |-> TRUE]
  /\ fetchFunction[2] = [shape |-> "envelope", len |-> 0, next |-> TRUE]
  /\ Len(pageResult) = 2

(***************************************************************************)
(* Claims about the routing of item kinds                                  *)
(***************************************************************************)

\* C18: the endpoint lookup takes issue, user_story and task each to its
\* own endpoint family, the history lookup takes them to the object types
\* issue, userstory and task, the attachment lookup to the attachment
\* family of each, and all three take every other kind to the issue family.
C18_KindRouting ==
  (attCall.op = "routing" /\ attPc = "done") =>
    attOutcome.msg =
      CASE attCall.itemType = "issue"
             -> <<"ISSUES", "issue", "ISSUE_ATTACHMENTS">>
        [] attCall.itemType = "user_story"
             -> <<"USER_STORIES", "userstory", "USERSTORY_ATTACHMENTS">>
        [] attCall.itemType = "task"
             -> <<"TASKS", "task", "TASK_ATTACHMENTS">>
        [] OTHER
             -> <<"ISSUES", "issue", "ISSUE_ATTACHMENTS">>

(***************************************************************************)
(* Claims about the classification of responses                            *)
(***************************************************************************)

\* the response is neither a bare-array body nor an envelope with a results
\* array
OtherShape(r) == r.shape \in {"object", "bare", "plain"}

\* what a response of another shape adds to the result: a truthy results
\* value that is no array as one element, the elements of a response that
\* has no body and is itself an array, nothing otherwise
ContributionOf(r, p) ==
  CASE r.shape = "object" /\ r.len = 1 -> <<ScalarResults(p)>>
    [] r.shape = "bare"                -> PageItems(p, r.len)
    [] OTHER                           -> <<>>

\* C21 as stated: a response whose body is neither an array nor an object
\* holding a results array adds no items to the result and ends the
\* traversal.
C21_AsStated ==
  \A i \in 1..Len(calls) :
    (settled >= i /\ OtherShape(fetchFunction[calls[i]]))
      => /\ pagePc = "done"
         /\ Len(calls) = i
         /\ pageResult = AllPages(i - 1)

\* C21 amended: such a response ends the traversal; it adds no items when
\* its body is truthy with results absent or falsy, or when it has no truthy
\* body and is not itself an array; a truthy results value that is no array
\* is added as one element, and a response without a truthy body that is
\* itself an array adds its elements.
C21_OtherShapeTerminal ==
  \A i \in 1..Len(calls) :
    (settled >= i /\ OtherShape(fetchFunction[calls[i]]))
      => /\ pageResult = AllPages(i - 1) \o ContributionOf(fetchFunction[calls[i]], i)
         /\ pagePc = "done"
         /\ Len(calls) = i

\* the second response carried a scalar as its results: it was added to the
\* item of the first page as one element, and the traversal ended there
C21_Witness ==
  /\ pagePc = "done"
  /\ maxPages = 3
  /\ calls = <<1, 2>>
  /\ fetchFunction[2] = [shape |-> "object", len |-> 1, next |-> TRUE]
  /\ pageResult = <<<<1, 1>>, <<2, 0>>>>

(***************************************************************************)
(* Claims about the termination of the pagination engine                   *)
(***************************************************************************)

\* C22: whatever fetchFunction answers (any mix of shapes, errors, or "next"
\* on every page), provided each call of it returns or raises, the call of
\* fetchAllPaginated never has made more than maxPages calls and eventually
\* returns a result to its caller, without raising.
C22_ReturnsWithinMaxPages ==
  /\ [](Len(calls) <= maxPages)
  /\ [](pagePc = "done" => (~pageRaised /\ settled = Len(calls)))
  /\ <>(pagePc = "done")

\* every page allowed carried "next" and items, and the call returned after
\* maxPages calls
C22_Witness ==
  /\ pagePc = "done"
  /\ maxPages = 3
  /\ \A p \in 1..3 : fetchFunction[p] = [shape |-> "envelope", len |-> 1, next |-> TRUE]
  /\ calls = <<1, 2, 3>>
  /\ settled = 3

(***************************************************************************)
(* Claims about the list operations                                        *)
(***************************************************************************)

\* the filters the caller of a list operation asked for
OwnFilters ==
  CASE listCall.op = "listProjects"         -> {<<"member", listUser>>}
    [] listCall.op = "getIssuesByMilestone" -> {<<"project", 3>>, <<"milestone", 8>>}
    [] listCall.op \in ListOps              -> {<<"project", 3>>}
    [] OTHER                                -> {}

\* C23: the i-th call carries page number i, whatever page the starting
\* parameter set names, exactly one page parameter, every other starting
\* parameter as it was given, and the filters of the list operation, the
\* same on every page; it goes to the endpoint of the operation.
C23_PageParameters ==
  /\ Len(sent) = Len(calls)
  /\ \A i \in 1..Len(sent) :
       /\ {kv \in sent[i].params : kv[1] = "page"} = {<<"page", i>>}
       /\ {kv \in sent[i].params : kv[1] # "page"} =
            {kv \in listCall.initialParams : kv[1] # "page"} \cup OwnFilters
       /\ sent[i].endpoint = ListEndpoint(listCall.op)

\* the issues of milestone 8 of project 3 were fetched in three pages
C23_Witness ==
  /\ listCall.op = "getIssuesByMilestone"
  /\ listPc = "done"
  /\ sent = << [endpoint |-> "ISSUES",
                params |-> {<<"project", 3>>, <<"milestone", 8>>, <<"page", 1>>}],
               [endpoint |-> "ISSUES",
                params |-> {<<"project", 3>>, <<"milestone", 8>>, <<"page", 2>>}],
               [endpoint |-> "ISSUES",
                params |-> {<<"project", 3>>, <<"milestone", 8>>, <<"page", 3>>}] >>

\* fetchAllPaginated was given a starting parameter set that names page 7:
\* its second call carried page 2 and the other parameter unchanged
C23_WitnessOverride ==
  /\ listCall.op = "fetchAllPaginated"
  /\ <<"page", 7>> \in listCall.initialParams
  /\ Len(sent) = 2
  /\ sent[2].params = {<<"order_by", 2>>, <<"page", 2>>}

\* the page request made last met a transport failure
LastPageFailed ==
  /\ calls # <<>>
  /\ settled = Len(calls)
  /\ fetchFunction[calls[Len(calls)]].shape = "throw"

\* C26: a list operation whose page request failed, the first or a later
\* one, does not raise its failed-to-list error: it returns the items of the
\* pages before the failed one, in order, the empty list when the first
\* page failed; and an operation that has made a page request at all ends
\* with a result, never with that error.
C26_PageFailureReturnsPartial ==
  (listCall.op \in ListOps /\ listPc = "done" /\ calls # <<>>)
    => /\ listOutcome.ok
       /\ LastPageFailed => listOutcome.items = AllPages(Len(calls) - 1)
       /\ (LastPageFailed /\ calls = <<1>>) => listOutcome.items = <<>>

\* listIssues met a failure on its first page request and returned the
\* empty list
C26_Witness ==
  /\ listCall.op = "listIssues"
  /\ listPc = "done"
  /\ calls = <<1>>
  /\ fetchFunction[1].shape = "throw"
  /\ listOutcome = ListResult(<<>>)

\* listEpics met a failure on its third page request and returned the items
\* of the first two pages
C26_WitnessPartial ==
  /\ listCall.op = "listEpics"
  /\ listPc = "done"
  /\ calls = <<1, 2, 3>>
  /\ fetchFunction[3].shape = "throw"
  /\ listOutcome = ListResult(<<<<1, 1>>, <<2, 1>>>>)

(***************************************************************************)
(* Claims about the order of read and write in the guarded updates         *)
(***************************************************************************)

\* the read of slot s failed
ReadFailed(s) == inv[s].failed # None /\ inv[s].failed[2] = "read"

\* C27: an invocation sends its write only after its read has returned the
\* resource; an invocation whose read failed has sent no write and ends in
\* an error to its caller; and the remote resource changes only by the
\* accepted write of an invocation whose read had returned, or by another
\* actor, so an invocation whose read failed leaves it as it was.
C27_WriteOnlyAfterRead ==
  /\ [](\A s \in Slots :
          /\ inv[s].writes = 1 => (inv[s].reads = 1 /\ inv[s].readVersion # None
                                   /\ ~ReadFailed(s))
          /\ ReadFailed(s) => (/\ inv[s].writes = 0
                               /\ inv[s].pc = "done"
                               /\ ~inv[s].outcome.ok))
  /\ [][remoteVersion' # remoteVersion =>
          \/ otherWrites' # otherWrites
          \/ \E s \in Slots :
               /\ inv[s].pc = "writing" /\ inv'[s].pc = "done"
               /\ ~ReadFailed(s)
               /\ inv[s].readVersion # None
               /\ \A r \in Resources :
                    remoteVersion'[r] # remoteVersion[r] => r = inv[s].readFrom]_vars

\* the read of an update of an epic failed with 404: nothing was written,
\* the epic is at its version, and the caller has the error of the update
C27_Witness ==
  /\ inv[1].pc = "done"
  /\ inv[1].call.op = "updateEpic"
  /\ inv[1].failed = TransportError("read", 404, FALSE)
  /\ inv[1].writes = 0
  /\ remoteVersion[<<"EPICS", 1>>] = 1
  /\ inv[1].outcome = [ok |-> FALSE, msg |-> "Failed to update epic in Taiga"]


(***************************************************************************)
(* C28  endpoint families of the attachment operations                     *)
(***************************************************************************)

\* the attachment family of an item kind; a kind without a family of its
\* own (epic) is served by the issue family
KindFamily(kind) ==
  CASE kind = "user_story" -> "USERSTORY_ATTACHMENTS"
    [] kind = "task"       -> "TASK_ATTACHMENTS"
    [] OTHER               -> "ISSUE_ATTACHMENTS"

\* the first two requests are those of an upload: the lookup of the item and
\* the POST of the form
UploadPosted == Len(requests) >= 2 /\ requests[2][1] = "POST"

\* the number of requests made before the operation under way began
RequestsBefore == IF UploadPosted THEN 2 ELSE 0

\* C28: uploadAttachment posts to, and listAttachments reads from, the
\* attachment family of the item's kind, while downloadAttachment looks the
\* attachment up, and deleteAttachment deletes it, under the issue family
\* whatever the kind of the item it was uploaded to.
C28_EndpointFamilies ==
  /\ UploadPosted => requests[2][2] = KindFamily(upload.itemType)
  /\ (attCall.op = "listAttachments" /\ Len(requests) > RequestsBefore) =>
       requests[RequestsBefore + 1] =
         <<"GET", KindFamily(attCall.itemType), <<"object_id", attCall.itemId>>>>
  /\ (attCall.op = "downloadAttachment" /\ Len(requests) > RequestsBefore) =>
       requests[RequestsBefore + 1] =
         <<"GET", "ISSUE_ATTACHMENTS", attCall.attachmentId>>
  /\ (attCall.op = "deleteAttachment" /\ Len(requests) > RequestsBefore) =>
       /\ Len(requests) = RequestsBefore + 1
       /\ requests[RequestsBefore + 1] =
            <<"DELETE", "ISSUE_ATTACHMENTS", attCall.attachmentId>>

\* C28 witness: an attachment uploaded to a user story has been deleted
\* through the issue family
C28_Witness ==
  /\ UploadPosted
  /\ upload.itemType = "user_story"
  /\ requests[2][2] = "USERSTORY_ATTACHMENTS"
  /\ attCall.op = "deleteAttachment"
  /\ attPc = "done"
  /\ attOutcome.ok
  /\ requests[3] = <<"DELETE", "ISSUE_ATTACHMENTS", 5>>

\* an attachment uploaded to a task is being downloaded: its metadata were
\* asked of the issue family
C28_WitnessDownload ==
  /\ UploadPosted
  /\ upload.itemType = "task"
  /\ requests[2][2] = "TASK_ATTACHMENTS"
  /\ attCall.op = "downloadAttachment"
  /\ attPc = "done"
  /\ requests[3] = <<"GET", "ISSUE_ATTACHMENTS", 5>>


(***************************************************************************)
(* C29  a download settles                                                 *)
(***************************************************************************)

\* C29: every invocation of downloadAttachment eventually settles: once the
\* content request has returned a stream, the result resolves after the
\* write finishes or rejects, also when the source stream fails or stops.
C29_DownloadSettles ==
  /\ <>(attPc = "done")
  /\ (attPc = "writing") ~> (attPc = "done")


(***************************************************************************)
(* C24  failures of service calls become error responses                   *)
(***************************************************************************)

\* some service call the handler made has raised
SomeCallFailed == \E i \in DOMAIN reads : reads[i].state = "rejected"

\* C24: every failure of a service call made by a tool handler is returned
\* as an error response, and no handler lets an exception escape.
C24_FailuresBecomeErrorResponses ==
  /\ ~toolRaised
  /\ SomeCallFailed => (toolPc = "done" /\ toolResponse.isError)
  /\ (toolPc = "done" /\ ~toolResponse.isError) =>
       \A i \in DOMAIN reads : reads[i].state = "fulfilled"

\* C24 witness: the update of a wiki page failed after the project and the
\* page were found, and the handler answered with the error's message
C24_Witness ==
  /\ toolCall.tool = "updateWikiPage"
  /\ toolPc = "done"
  /\ Len(reads) = 3
  /\ reads[3].state = "rejected"
  /\ toolResponse = createErrorResponse(<<"ERROR_MESSAGES.FAILED_TO_UPDATE_WIKI">>)
  /\ ~toolRaised

(***************************************************************************)
(* C25  the two reads of the sprint tools                                  *)
(***************************************************************************)

\* the handlers that read twice at once
ReadsTwice == toolCall.tool \in {"getMilestoneStats", "getIssuesByMilestone"}

\* the indexes of the two reads among the calls of the handler
Pair == IF toolCall.tool = "getMilestoneStats" THEN <<1, 2>> ELSE <<2, 3>>

\* both reads have been made and have settled
PairSettled ==
  /\ Len(reads) = Pair[2]
  /\ reads[Pair[1]].state # "pending"
  /\ reads[Pair[2]].state # "pending"

\* the reads of the pair that raised
PairFailed == {i \in {Pair[1], Pair[2]} : reads[i].state = "rejected"}

\* the orders in which the calls made can have settled, the calls before
\* the pair first
Orders ==
  LET before == [k \in 1..(Pair[1] - 1) |-> k]
  IN {before \o <<Pair[1], Pair[2]>>, before \o <<Pair[2], Pair[1]>>}

\* what the handler answers when its calls end as rs says, in the order ord
HandlerResponse(c, rs, ord) ==
  LET awaited == PromiseAll(rs, ord, <<Pair[1], Pair[2]>>)
  IN IF awaited.state = "rejected" THEN Catch(c, awaited.value).response
     ELSE Respond(c, rs)

\* the read of the pair that settled first
FirstOfPair == IF order[Pair[1]] = Pair[1] THEN Pair[1] ELSE Pair[2]

\* C25 as stated: the response is the same for every completion order of the
\* two reads, also when both fail.
C25_AsStated ==
  (ReadsTwice /\ toolPc = "done" /\ PairSettled) =>
    \A ord \in Orders : HandlerResponse(toolCall, reads, ord) = toolResponse

\* C25 amended: the two reads are made together, neither waiting for the
\* other; when at most one of them fails the response is the same for every
\* completion order; when both fail the response carries the error of the
\* read that failed first.
C25_ConcurrentReads ==
  /\ ReadsTwice => Len(reads) # Pair[1]
  /\ (ReadsTwice /\ toolPc = "done" /\ PairSettled /\ Cardinality(PairFailed) <= 1) =>
       \A ord \in Orders : HandlerResponse(toolCall, reads, ord) = toolResponse
  /\ (ReadsTwice /\ toolPc = "done" /\ PairSettled /\ Cardinality(PairFailed) = 2) =>
       toolResponse =
         createErrorResponse(CatchText(toolCall, ServiceError(reads[FirstOfPair].call)))

\* C25 witness: both reads of getMilestoneStats were under way together, the
\* statistics failed first and the milestone after it, and the response
\* carries the error of the statistics
C25_Witness ==
  /\ toolCall.tool = "getMilestoneStats"
  /\ toolPc = "done"
  /\ PairSettled
  /\ PairFailed = {1, 2}
  /\ order = <<2, 1>>
  /\ toolResponse =
       createErrorResponse(<<"Failed to get sprint details: ",
                             "ERROR_MESSAGES.FAILED_TO_GET_MILESTONE_STATS">>)

\* both reads of getIssuesByMilestone are under way
C25_WitnessBothPending ==
  /\ toolCall.tool = "getIssuesByMilestone"
  /\ toolPc = "awaiting"
  /\ Len(reads) = 3
  /\ reads[2].state = "pending"
  /\ reads[3].state = "pending"

=============================================================================
